---- MODULE Spec2Model ----
(***************************************************************************)
(* The adaptive document conversion pipeline of the pandoc_converter       *)
(* plugin.                                                                 *)
(*                                                                         *)
(* Spec          Plugin.execute (plugin.py): option validation, pre-flight *)
(*               check, staging, strategy choice, chunk loop, finalize and *)
(*               cleanup.  A converter run is one step with every result   *)
(*               _execute_pandoc_command can return.                       *)
(* StrategySpec  ChunkedStrategy.process (strategies/chunked.py) for every *)
(*               success-rate threshold, a converter run being one step.   *)
(* ExecSpec      ChunkedStrategy.process over                              *)
(*               PandocExecutor.execute_with_monitoring and                *)
(*               MemoryMonitor.monitor_process, at the grain of single     *)
(*               statements, with the child processes, the monitor threads *)
(*               and a discrete clock (one tick = one second).             *)
(* FairExecSpec  ExecSpec with weak fairness of the next-state relation:   *)
(*               threads keep running and time keeps passing.              *)
(***************************************************************************)
EXTENDS Integers, Sequences, FiniteSets, TLC

VARIABLES
    \* ---- Plugin.execute -------------------------------------------------
    pc,                 \* position of the invocation in Plugin.execute
    file_ext,           \* Path(filename).suffix as given by the caller
    file_size,          \* size of the input, see Size
    advanced_options,   \* the options the caller submits, see options_form
    options_form,       \* how they are submitted: "list", or a string, see OptionForms
    validated_advanced_options, \* what _validate_advanced_options returned
    artifact,           \* where the output file is: "none" | "temp" | "moving" |
                        \* "downloads" | "removed"
    cleanup_attempts,   \* calls of shutil.rmtree(temp_dir) by the finally block
    downloads_added,    \* files in the downloads directory that were not there
                        \* before the invocation
    data_files,         \* what the installed converter answers to the pre-flight check
    temp_dir,           \* "none" | "exists" | "removed"
    preflight_spawned,  \* processes started by _check_pandoc_data_files
    single_launches,    \* converter processes started on the whole input
    chunk_launches,     \* converter processes started on a fragment
    split_calls,        \* calls of _split_html_content
    extract_calls,      \* text extractions performed
    should_chunk,       \* result of _should_chunk_file (FALSE before it ran)
    chunk_paths,        \* number of fragments the split returned
    chunk_i,            \* loop index of the chunk loop (0-based, as in the code)
    processed_chunks,   \* ids of the fragments appended to processed_chunks
    outcome,            \* what execute returned or raised
    \* ---- ChunkedStrategy.process, PandocExecutor, MemoryMonitor ----------
    \* (chunk_paths, chunk_i, processed_chunks, split_calls, chunk_launches
    \* and extract_calls above are also the locals and counters of
    \* ChunkedStrategy.process)
    spc,                \* position of the thread that runs ChunkedStrategy.process
    success_rate_threshold, \* context.config.success_rate_threshold, <<num, den>>
    child,              \* child[k]: "none" | "running" | "exited", process of fragment k
    retcode,            \* retcode[k]: exit status of the process of fragment k
    pending,            \* pending[k]: signals sent to the process and not yet delivered
    over,               \* over[k]: resident memory of the process is above the limit
    mem_changed,        \* the memory of a process crossed the limit in this second
    mon,                \* mon[k]: position of the monitor thread of fragment k
    mon_timer,          \* mon_timer[k]: seconds left of the monitor's time.sleep
    mon_ret,            \* mon_ret[k]: value returned by monitor_process
    wait_left,          \* seconds left of process.wait(timeout=timeout)
    sleep_left,         \* seconds left of time.sleep(2) after a timeout
    exec_ret,           \* exec_ret[k]: value returned by execute_with_monitoring
    result,             \* the ProcessingResult returned by process
    \* ---- history of the run, read by the properties only ------------------
    end_kind,           \* end_kind[k]: how the run of fragment k ended
    conv_ok,            \* conv_ok[k]: the conversion succeeded and its output exists
    over_age,           \* over_age[k]: seconds since the memory went above the limit
    observed,           \* observed[k]: the monitor saw the memory above the limit
    grace_waited,       \* grace_waited[k]: seconds the monitor slept after terminate
    polls_after_exit,   \* polls_after_exit[k]: memory polls of the exited process made
                        \* by the monitor thread that is still running
    \* ---- concurrent invocations and the downloads directory ---------------
    inv_pc,             \* inv_pc[n]: position of invocation n
    inv_temp_dir,       \* inv_temp_dir[n]: the directory mkdtemp returned (0: none yet)
    inv_stem,           \* inv_stem[n]: stem of the output file of invocation n
    permanent_path,     \* permanent_path[n]: <<stem, unique_id>> chosen by
                        \* _move_to_downloads (<< >>: none yet)
    temp_dirs,          \* the temporary directories that exist
    downloads_dir,      \* the files of /app/data/downloads: <<path, invocation
                        \* whose artifact the file holds>>
    \* ---- ChunkingService: _split_with_beautifulsoup and merge_chunks -------
    sp,                 \* position: "split", "convert", "merge", "done"
    soup,               \* the parsed document: [head, body]
    max_chunk_size,     \* the size a fragment should not exceed
    output_format,      \* the format merge_chunks is called with
    element_i,          \* index in body_elements of the element the loop is at
    current_chunk_elements,
    current_chunk_size,
    chunk_num,
    chunks,             \* the fragment files written so far, in list order
    chunk_exists,       \* chunk_exists[i]: the output of fragment i exists
    merged,             \* the merged file: the separators and contents written
    \* ---- the converter command of one launch -------------------------------
    cmd_pc,             \* "start", "built"
    input_filename,     \* input_file_info["filename"], as the parts of the name
    cmd_output_format,  \* the output format asked for
    command             \* the command built: [by, input, output]

optVars == <<options_form, validated_advanced_options>>

finVars == <<artifact, cleanup_attempts, downloads_added>>

invVars == <<inv_pc, inv_temp_dir, inv_stem, permanent_path, temp_dirs, downloads_dir>>

\* the variables Plugin.execute and ChunkedStrategy.process do not touch
splitVars == <<sp, soup, max_chunk_size, output_format, element_i,
               current_chunk_elements, current_chunk_size, chunk_num, chunks,
               chunk_exists, merged>>

cmdVars == <<cmd_pc, input_filename, cmd_output_format, command>>

auxVars == <<invVars, splitVars, cmdVars>>

pipeOnlyVars == <<pc, file_ext, file_size, advanced_options, data_files, temp_dir,
                  preflight_spawned, single_launches, should_chunk, outcome, optVars,
                  finVars, auxVars>>

stratOwnVars == <<spc, success_rate_threshold, child, retcode, pending, over,
                  mem_changed, mon, mon_timer, mon_ret, wait_left, sleep_left,
                  exec_ret, result, end_kind, conv_ok, over_age, observed,
                  grace_waited, polls_after_exit>>

stratOnlyVars == <<stratOwnVars, auxVars>>

pipeVars == <<pc, file_ext, file_size, advanced_options, data_files, temp_dir,
              preflight_spawned, single_launches, chunk_launches, split_calls,
              extract_calls,
              should_chunk, chunk_paths, chunk_i, processed_chunks, outcome, optVars,
              finVars>>

vars == <<pipeVars, stratOnlyVars>>

-----------------------------------------------------------------------------
(* Bounds of the model                                                     *)

MaxChunks == 2          \* most fragments a split returns
MaxOpts == 1            \* most options in advanced_options
MaxInvocations == 2     \* invocations running at the same time
MaxElems == 2           \* most top-level elements of a document body
MaxIds == 2             \* values the eight-digit identifier is drawn from
TimeoutTicks == 3       \* context.config.timeout, in seconds

-----------------------------------------------------------------------------
(* Sizes.  A size in bytes is held as mib * 2^20 + rem with 0 <= rem < 2^20 *)
(* so that the 2 GiB ceiling and its neighbours are representable.          *)

MiB == 1024 * 1024

Size(m, r) == [mib |-> m, rem |-> r]

SizeGT(a, b) == a.mib > b.mib \/ (a.mib = b.mib /\ a.rem > b.rem)

SizeLT(a, b) == SizeGT(b, a)

\* 50 * 1024 * 1024 (plugin.py:211, models.py:42)
ChunkingThreshold == Size(50, 0)

\* 2 * 1024 * 1024 * 1024 (plugin.py:72)
MaxInputSize == Size(2048, 0)

\* the sizes an invocation is called with: input_file_info["size"] is the
\* caller's number (plugin.py:682), Size(0, -1) being -1
FileSizes ==
    { Size(0, -1), Size(0, 0), Size(0, 1), Size(49, MiB - 1), Size(50, 0),
      Size(50, 1), Size(80, 0), Size(2048, 0), Size(2048, 1) }

-----------------------------------------------------------------------------
(* Extensions                                                              *)

Suffixes == { ".html", ".HTML", ".Html", ".htm", ".txt", "" }

\* str.lower on the suffixes of the model
lower(s) == CASE s = ".HTML" -> ".html"
              [] s = ".Html" -> ".html"
              [] OTHER -> s

\* ChunkingService.should_chunk
should_chunk_mut_ge(size, ext, threshold) ==
    lower(ext) = ".html" /\ ~SizeLT(size, threshold)

should_chunk_fn(size, ext, threshold) ==
    lower(ext) = ".html" /\ SizeGT(size, threshold)

\* Plugin._should_chunk_file
should_chunk_file_mut_noext(size, ext) ==
    SizeGT(size, Size(50, 0))

should_chunk_file_mut_ge(size, ext) ==
    lower(ext) = ".html" /\ ~SizeLT(size, Size(50, 0))

should_chunk_file(size, ext) ==
    IF lower(ext) = ".html" /\ SizeGT(size, Size(50, 0)) THEN TRUE ELSE FALSE

-----------------------------------------------------------------------------
(* Advanced options.  An option is the sequence of its characters.         *)

\* the backtick character (the lexer of TLA+ does not accept it in a string)
BackTick == "BACKTICK"

OptSafe     == << "-", "s" >>                                   \* -s
OptSemi     == << "a", ";", "b" >>                              \* a;b
OptTick     == << BackTick, "x", BackTick >>                              \* backtick x backtick
OptUp       == << ".", ".", "/", "x" >>                         \* ../x
OptOut      == << "-", "o" >>                                   \* -o
OptOutFile  == << "-", "o", "x" >>                              \* -ox
OptOutLong  == << "-", "-", "o", "u", "t", "p", "u", "t", "=", "x" >>  \* --output=x

OptLeadOut  == << " ", "-", "o", "x" >>                         \* -ox after a space
OptTrailIn  == << "-", "i", " " >>                              \* -i before a space
OptTrailSafe == << "-", "s", " " >>                             \* -s before a space

OptionTokens == { OptSafe, OptSemi, OptTick, OptUp, OptOut, OptOutFile, OptOutLong,
                  OptLeadOut, OptTrailIn, OptTrailSafe }

\* every list of at most MaxOpts options
OptionLists == UNION { [1..n -> OptionTokens] : n \in 0..MaxOpts }

\* s[i..] starts with the characters of p
MatchesAt(s, i, p) ==
    /\ i + Len(p) - 1 <= Len(s)
    /\ \A k \in 1..Len(p) : s[i + k - 1] = p[k]

\* re.search of a literal
Contains(s, p) == \E i \in 1..Len(s) : MatchesAt(s, i, p)

\* str.startswith
StartsWith(s, p) == MatchesAt(s, 1, p)

\* re.search of the class of shell metacharacters ; & | backtick $
HasShellMeta(s) == \E i \in 1..Len(s) : s[i] \in { ";", "&", "|", BackTick, "$" }

\* re.search(r'\.\./', option)
HasTraversal(s) == Contains(s, << ".", ".", "/" >>)

\* re.search(r'--?[io]$', option): the option ends with -i or -o, where $
\* also matches before one trailing newline
EndsWithIOFlag(s) ==
    \E n \in { Len(s), Len(s) - 1 } :
        /\ n >= 2
        /\ (n = Len(s) \/ s[Len(s)] = "\n")
        /\ s[n - 1] = "-"
        /\ s[n] \in { "i", "o" }

\* the five dangerous_patterns of _validate_advanced_options
IsDangerous(s) ==
    \/ HasShellMeta(s)
    \/ HasTraversal(s)
    \/ EndsWithIOFlag(s)
    \/ Contains(s, << "-", "-", "i", "n", "p", "u", "t" >>)
    \/ Contains(s, << "-", "-", "o", "u", "t", "p", "u", "t" >>)

\* option.startswith(('-o', '--output'))
OverridesOutput(s) ==
    \/ StartsWith(s, << "-", "o" >>)
    \/ StartsWith(s, << "-", "-", "o", "u", "t", "p", "u", "t" >>)

\* does _validate_advanced_options raise ValueError on this list
options_rejected(opts) ==
    \E i \in 1..Len(opts) : IsDangerous(opts[i]) \/ OverridesOutput(opts[i])

\* the caller submits the list itself, or a string: the options joined by
\* spaces, or each option in single quotes, joined by spaces
OptionForms == { "list", "plain", "quoted" }

Whitespace == { " ", "\n", "\t" }

RECURSIVE JoinOptions(_, _)
JoinOptions(opts, quote) ==
    IF opts = << >>
      THEN << >>
      ELSE (IF quote THEN << "'" >> \o opts[1] \o << "'" >> ELSE opts[1])
           \o (IF Len(opts) > 1 THEN << " " >> ELSE << >>)
           \o JoinOptions(Tail(opts), quote)

\* shlex.split on characters that are neither escapes nor double quotes:
\* whitespace outside single quotes separates the tokens, the quotes are
\* removed, a quote that is not closed raises ValueError (ok = FALSE)
RECURSIVE ShlexScan(_, _, _, _, _, _)
ShlexScan(s, i, tok, in_token, in_quote, acc) ==
    IF i > Len(s)
      THEN IF in_quote
             THEN [ok |-> FALSE, tokens |-> << >>]
             ELSE [ok |-> TRUE, tokens |-> IF in_token THEN Append(acc, tok) ELSE acc]
      ELSE IF in_quote
             THEN IF s[i] = "'"
                    THEN ShlexScan(s, i + 1, tok, TRUE, FALSE, acc)
                    ELSE ShlexScan(s, i + 1, Append(tok, s[i]), TRUE, TRUE, acc)
             ELSE IF s[i] = "'"
                    THEN ShlexScan(s, i + 1, tok, TRUE, TRUE, acc)
                    ELSE IF s[i] \in Whitespace
                           THEN ShlexScan(s, i + 1, << >>, FALSE, FALSE,
                                          IF in_token THEN Append(acc, tok) ELSE acc)
                           ELSE ShlexScan(s, i + 1, Append(tok, s[i]), TRUE, FALSE, acc)

shlex_split(s) == ShlexScan(s, 1, << >>, FALSE, FALSE, << >>)

\* str.strip
RECURSIVE lstrip(_)
lstrip(s) == IF s # << >> /\ Head(s) \in Whitespace THEN lstrip(Tail(s)) ELSE s

RECURSIVE rstrip(_)
rstrip(s) ==
    IF s # << >> /\ s[Len(s)] \in Whitespace THEN rstrip(SubSeq(s, 1, Len(s) - 1)) ELSE s

strip(s) == lstrip(rstrip(s))

\* lines 83-91: options_list
options_list(form, opts) ==
    IF form = "list"
      THEN [ok |-> TRUE, tokens |-> opts]
      ELSE shlex_split(JoinOptions(opts, form = "quoted"))

\* Plugin._validate_advanced_options: ValueError (raised = TRUE) or the list
\* of the stripped options
validate_advanced_options(form, opts) ==
    IF opts = << >>
      THEN [raised |-> FALSE, value |-> << >>]
      ELSE LET parsed == options_list(form, opts)
           IN  IF ~parsed.ok \/ options_rejected(parsed.tokens)
                 THEN [raised |-> TRUE, value |-> << >>]
                 ELSE [raised |-> FALSE,
                       value |-> [i \in 1..Len(parsed.tokens) |-> strip(parsed.tokens[i])]]

-----------------------------------------------------------------------------
(* Plugin.execute                                                          *)

NoOutcome == [status |-> "none", strategy |-> "none", error |-> "none"]

Raised(kind) == [status |-> "raised", strategy |-> "none", error |-> kind]

Returned(strategy) == [status |-> "returned", strategy |-> strategy, error |-> "none"]

PipeInit ==
    /\ pc = "start"
    /\ file_ext \in Suffixes
    /\ file_size \in FileSizes
    /\ advanced_options \in OptionLists
    /\ options_form \in OptionForms
    /\ validated_advanced_options = << >>
    /\ artifact = "none"
    /\ cleanup_attempts = 0
    /\ downloads_added = 0
    /\ data_files \in { "ok", "missing", "timeout" }
    /\ temp_dir = "none"
    /\ preflight_spawned = 0
    /\ single_launches = 0
    /\ chunk_launches = 0
    /\ split_calls = 0
    /\ extract_calls = 0
    /\ should_chunk = FALSE
    /\ chunk_paths = 0
    /\ chunk_i = 0
    /\ processed_chunks = << >>
    /\ outcome = NoOutcome

\* an exception inside the try block: the handler re-raises RuntimeError and
\* the finally block runs
Raise(kind) ==
    /\ outcome' = Raised(kind)
    /\ pc' = "cleanup"

\* lines 645-652: memory check, tempfile.mkdtemp(), which returns a new
\* directory or raises
CreateTempDir ==
    /\ pc = "start"
    /\ \/ temp_dir' = "exists" /\ pc' = "preflight" /\ outcome' = outcome
       \/ UNCHANGED temp_dir /\ Raise("mkdtemp_failed")
    /\ UNCHANGED <<stratOnlyVars, optVars, finVars>>
    /\ UNCHANGED <<file_ext, file_size, advanced_options, data_files, preflight_spawned,
                   single_launches, chunk_launches, split_calls, extract_calls,
                   should_chunk, chunk_paths, chunk_i, processed_chunks>>

\* the answer of the check is not read: the only difference to CheckDataFiles
CheckDataFiles_mut_ignored ==
    /\ pc = "preflight"
    /\ preflight_spawned' = preflight_spawned + (IF data_files = "timeout" THEN 1 ELSE 2)
    /\ pc' = "validate_options"
    /\ outcome' = outcome
    /\ UNCHANGED <<stratOnlyVars, optVars, finVars>>
    /\ UNCHANGED <<file_ext, file_size, advanced_options, data_files, temp_dir,
                   single_launches, chunk_launches, split_calls, extract_calls,
                   should_chunk, chunk_paths, chunk_i, processed_chunks>>

\* _check_pandoc_data_files and lines 654-665: one subprocess.run per test
\* file; a run that raises (its 5 s timeout) ends the check at the first file
CheckDataFiles ==
    /\ pc = "preflight"
    /\ preflight_spawned' = preflight_spawned + (IF data_files = "timeout" THEN 1 ELSE 2)
    /\ IF data_files = "ok"
         THEN pc' = "validate_options" /\ outcome' = outcome
         ELSE Raise("data_files_missing")
    /\ UNCHANGED <<stratOnlyVars, optVars, finVars>>
    /\ UNCHANGED <<file_ext, file_size, advanced_options, data_files, temp_dir,
                   single_launches, chunk_launches, split_calls, extract_calls,
                   should_chunk, chunk_paths, chunk_i, processed_chunks>>

\* line 668: _validate_advanced_options
ValidateOptions ==
    /\ pc = "validate_options"
    /\ LET validated == validate_advanced_options(options_form, advanced_options)
       IN  IF validated.raised
             THEN Raise("invalid_options") /\ UNCHANGED validated_advanced_options
             ELSE /\ pc' = "stage"
                  /\ outcome' = outcome
                  /\ validated_advanced_options' = validated.value
    /\ UNCHANGED <<stratOnlyVars, options_form, finVars>>
    /\ UNCHANGED <<file_ext, file_size, advanced_options, data_files, temp_dir,
                   preflight_spawned, single_launches, chunk_launches, split_calls,
                   extract_calls, should_chunk, chunk_paths, chunk_i, processed_chunks>>

\* lines 676-700: the input is placed in the temporary directory, then
\* _validate_input_file rejects an empty or oversized input
StageInput ==
    /\ pc = "stage"
    /\ IF file_size = Size(0, 0)
         THEN Raise("input_empty")
         ELSE IF SizeGT(file_size, MaxInputSize)
                THEN Raise("input_too_large")
                ELSE pc' = "choose" /\ outcome' = outcome
    /\ UNCHANGED <<stratOnlyVars, optVars, finVars>>
    /\ UNCHANGED <<file_ext, file_size, advanced_options, data_files, temp_dir,
                   preflight_spawned, single_launches, chunk_launches, split_calls,
                   extract_calls, should_chunk, chunk_paths, chunk_i, processed_chunks>>

\* lines 702-706: the extension of the diagnostics is Path(filename).suffix.lower()
ChooseStrategy ==
    /\ pc = "choose"
    /\ should_chunk' = should_chunk_file(file_size, lower(file_ext))
    /\ pc' = IF should_chunk' THEN "split" ELSE "single"
    /\ UNCHANGED <<stratOnlyVars, optVars, finVars>>
    /\ UNCHANGED <<file_ext, file_size, advanced_options, data_files, temp_dir,
                   preflight_spawned, single_launches, chunk_launches, split_calls,
                   extract_calls, chunk_paths, chunk_i, processed_chunks, outcome>>

\* lines 709-714: _split_html_content returns the list of fragments
SplitInput ==
    /\ pc = "split"
    /\ split_calls' = split_calls + 1
    /\ chunk_paths' \in 0..MaxChunks
    /\ chunk_i' = 0
    /\ processed_chunks' = << >>
    /\ pc' = "chunk_loop"
    /\ UNCHANGED <<stratOnlyVars, optVars, finVars>>
    /\ UNCHANGED <<file_ext, file_size, advanced_options, data_files, temp_dir,
                   preflight_spawned, single_launches, chunk_launches, extract_calls,
                   should_chunk, outcome>>

\* lines 716-745: one pass of the chunk loop; _execute_pandoc_command returns
\* True or False and the output file exists or not
ConvertChunk ==
    /\ pc = "chunk_loop"
    /\ chunk_i < chunk_paths
    /\ chunk_launches' = chunk_launches + 1
    /\ \E chunk_success \in BOOLEAN, output_exists \in BOOLEAN :
         processed_chunks' = IF chunk_success /\ output_exists
                               THEN Append(processed_chunks, chunk_i + 1)
                               ELSE processed_chunks
    /\ chunk_i' = chunk_i + 1
    /\ UNCHANGED <<stratOnlyVars, optVars, finVars>>
    /\ UNCHANGED <<pc, file_ext, file_size, advanced_options, data_files, temp_dir,
                   preflight_spawned, single_launches, split_calls, extract_calls,
                   should_chunk, chunk_paths, outcome>>

\* lines 747-755: no fragment converted raises, otherwise the outputs are merged
MergeChunks ==
    /\ pc = "chunk_loop"
    /\ chunk_i = chunk_paths
    /\ IF processed_chunks = << >>
         THEN Raise("all_chunks_failed") /\ UNCHANGED artifact
         ELSE pc' = "finalize" /\ outcome' = outcome /\ artifact' = "temp"
    /\ UNCHANGED <<stratOnlyVars, optVars, cleanup_attempts, downloads_added>>
    /\ UNCHANGED <<file_ext, file_size, advanced_options, data_files, temp_dir,
                   preflight_spawned, single_launches, chunk_launches, split_calls,
                   extract_calls, should_chunk, chunk_paths, chunk_i, processed_chunks>>

\* lines 757-774: one converter run on the whole input
ConvertSingle ==
    /\ pc = "single"
    /\ single_launches' = single_launches + 1
    /\ \E success \in BOOLEAN, output_exists \in BOOLEAN :
         IF ~success
           THEN Raise("conversion_failed") /\ UNCHANGED artifact
           ELSE IF ~output_exists
                  THEN Raise("output_missing") /\ UNCHANGED artifact
                  ELSE pc' = "finalize" /\ outcome' = outcome /\ artifact' = "temp"
    /\ UNCHANGED <<stratOnlyVars, optVars, cleanup_attempts, downloads_added>>
    /\ UNCHANGED <<file_ext, file_size, advanced_options, data_files, temp_dir,
                   preflight_spawned, chunk_launches, split_calls, extract_calls,
                   should_chunk, chunk_paths, chunk_i, processed_chunks>>

\* lines 776-783 and _move_to_downloads lines 42-53: the name is chosen and
\* shutil.move starts
BeginMove ==
    /\ pc = "finalize"
    /\ artifact' = "moving"
    /\ pc' = "moving"
    /\ UNCHANGED <<stratOnlyVars, optVars, cleanup_attempts, downloads_added>>
    /\ UNCHANGED <<file_ext, file_size, advanced_options, data_files, temp_dir,
                   preflight_spawned, single_launches, chunk_launches, split_calls,
                   extract_calls, should_chunk, chunk_paths, chunk_i, processed_chunks,
                   outcome>>

Finalize_mut_return_before_move ==
    /\ pc = "moving"
    /\ artifact' = "temp"
    /\ outcome' = Returned(IF should_chunk THEN "chunked" ELSE "single_file")
    /\ pc' = "cleanup"
    /\ UNCHANGED <<stratOnlyVars, optVars, cleanup_attempts, downloads_added>>
    /\ UNCHANGED <<file_ext, file_size, advanced_options, data_files, temp_dir,
                   preflight_spawned, single_launches, chunk_launches, split_calls,
                   extract_calls, should_chunk, chunk_paths, chunk_i, processed_chunks>>

\* lines 783-821: shutil.move returns, the conversion details are built and
\* execute returns; or the move raises (the source is deleted only after the
\* copy, so the artifact is still in the temporary directory).  A move that
\* raises has renamed nothing; between two file systems it copies and then
\* removes the source, and when the copy breaks off (the volume is full) or
\* the source cannot be removed, what it wrote at permanent_path stays
Finalize ==
    /\ pc = "moving"
    /\ \/ /\ artifact' = "downloads"
          /\ downloads_added' = 1
          /\ outcome' = Returned(IF should_chunk THEN "chunked" ELSE "single_file")
          /\ pc' = "cleanup"
       \/ /\ artifact' = "temp"
          /\ downloads_added' \in { 0, 1 }
          /\ Raise("move_failed")
    /\ UNCHANGED <<stratOnlyVars, optVars, cleanup_attempts>>
    /\ UNCHANGED <<file_ext, file_size, advanced_options, data_files, temp_dir,
                   preflight_spawned, single_launches, chunk_launches, split_calls,
                   extract_calls, should_chunk, chunk_paths, chunk_i, processed_chunks>>

\* lines 832-836: the finally block starts shutil.rmtree(temp_dir) when the
\* directory was created and exists
BeginCleanup ==
    /\ pc = "cleanup"
    /\ IF temp_dir = "exists"
         THEN pc' = "removing" /\ cleanup_attempts' = cleanup_attempts + 1
         ELSE pc' = "done" /\ UNCHANGED cleanup_attempts
    /\ UNCHANGED <<stratOnlyVars, optVars, artifact, downloads_added>>
    /\ UNCHANGED <<file_ext, file_size, advanced_options, data_files, temp_dir,
                   preflight_spawned, single_launches, chunk_launches, split_calls,
                   extract_calls, should_chunk, chunk_paths, chunk_i, processed_chunks,
                   outcome>>

Cleanup_mut_escalates ==
    /\ pc = "removing"
    /\ \/ /\ temp_dir' = "removed"
          /\ artifact' = IF artifact \in { "temp", "moving" } THEN "removed" ELSE artifact
          /\ outcome' = outcome
       \/ /\ UNCHANGED <<temp_dir, artifact>>
          /\ outcome' = Raised("cleanup_failed")
    /\ pc' = "done"
    /\ UNCHANGED <<stratOnlyVars, optVars, cleanup_attempts, downloads_added>>
    /\ UNCHANGED <<file_ext, file_size, advanced_options, data_files,
                   preflight_spawned, single_launches, chunk_launches, split_calls,
                   extract_calls, should_chunk, chunk_paths, chunk_i, processed_chunks>>

\* lines 836-839: rmtree removes the directory with everything in it, or it
\* raises and the failure is logged only
Cleanup ==
    /\ pc = "removing"
    /\ \/ /\ temp_dir' = "removed"
          /\ artifact' = IF artifact \in { "temp", "moving" } THEN "removed" ELSE artifact
       \/ UNCHANGED <<temp_dir, artifact>>
    /\ pc' = "done"
    /\ UNCHANGED <<stratOnlyVars, optVars, cleanup_attempts, downloads_added>>
    /\ UNCHANGED <<file_ext, file_size, advanced_options, data_files,
                   preflight_spawned, single_launches, chunk_launches, split_calls,
                   extract_calls, should_chunk, chunk_paths, chunk_i, processed_chunks,
                   outcome>>

PipeNext ==
    \/ CreateTempDir
    \/ CheckDataFiles
    \/ ValidateOptions
    \/ StageInput
    \/ ChooseStrategy
    \/ SplitInput
    \/ ConvertChunk
    \/ MergeChunks
    \/ ConvertSingle
    \/ BeginMove
    \/ Finalize
    \/ BeginCleanup
    \/ Cleanup

-----------------------------------------------------------------------------
(* ChunkedStrategy.process over PandocExecutor.execute_with_monitoring and *)
(* MemoryMonitor.monitor_process.                                          *)
(*                                                                         *)
(* Time is discrete, one tick is one second.  A statement takes no time:   *)
(* Tick is enabled only when every thread is blocked in a sleep or a wait  *)
(* and no signal is waiting for delivery.  A child process may exit, and   *)
(* its memory may cross the limit, at any moment.                          *)

Frags == 1..MaxChunks

PollInterval == 1       \* time.sleep(1) of monitor_process
GracePeriod == 2        \* time.sleep(2) of monitor_process
TimeoutGrace == 2       \* time.sleep(2) of execute_with_monitoring

\* a rational number <<numerator, denominator>>
RatLT(a, b) == a[1] * b[2] < b[1] * a[2]

RatEQ(a, b) == a[1] * b[2] = b[1] * a[2]

Thresholds == { << 0, 1 >>, << 1, 2 >>, << 1, 1 >> }

NoOutput == [kind |-> "none", parts |-> << >>]

NoResult == [success |-> FALSE, method |-> "none", chunk_count |-> 0,
             success_rate |-> << 1, 1 >>, output |-> NoOutput]

after_chunks_mut_le(n_processed, n_chunks, threshold) ==
    IF n_processed = 0
      THEN "all_failed"
      ELSE IF ~RatLT(threshold, << n_processed, n_chunks >>) THEN "low_rate" ELSE "merge"

\* the branch ChunkedStrategy.process takes after the loop (lines 83-129)
after_chunks(n_processed, n_chunks, threshold) ==
    IF n_processed = 0
      THEN "all_failed"
      ELSE IF RatLT(<< n_processed, n_chunks >>, threshold) THEN "low_rate" ELSE "merge"

PipeIdle ==
    /\ pc = "idle"
    /\ file_ext = ".html"
    /\ file_size = Size(80, 0)
    /\ advanced_options = << >>
    /\ options_form = "list"
    /\ validated_advanced_options = << >>
    /\ artifact = "none"
    /\ cleanup_attempts = 0
    /\ downloads_added = 0
    /\ data_files = "ok"
    /\ temp_dir = "exists"
    /\ preflight_spawned = 0
    /\ single_launches = 0
    /\ should_chunk = TRUE
    /\ outcome = NoOutcome

StratFresh ==
    /\ child = [k \in Frags |-> "none"]
    /\ retcode = [k \in Frags |-> 0]
    /\ pending = [k \in Frags |-> {}]
    /\ over = [k \in Frags |-> FALSE]
    /\ mem_changed = FALSE
    /\ mon = [k \in Frags |-> "m_idle"]
    /\ mon_timer = [k \in Frags |-> 0]
    /\ mon_ret = [k \in Frags |-> "none"]
    /\ wait_left = 0
    /\ sleep_left = 0
    /\ exec_ret = [k \in Frags |-> "none"]
    /\ result = NoResult
    /\ end_kind = [k \in Frags |-> "none"]
    /\ conv_ok = [k \in Frags |-> FALSE]
    /\ over_age = [k \in Frags |-> 0]
    /\ observed = [k \in Frags |-> FALSE]
    /\ grace_waited = [k \in Frags |-> 0]
    /\ polls_after_exit = [k \in Frags |-> 0]

\* ProcessingConfig.success_rate_threshold = 0.5
DefaultThreshold == << 1, 2 >>

\* the state in which process(context) is called with the given thresholds
StratStart(thresholds) ==
    /\ spc = "s_split"
    /\ success_rate_threshold \in thresholds
    /\ chunk_paths = 0
    /\ chunk_i = 0
    /\ processed_chunks = << >>
    /\ split_calls = 0
    /\ chunk_launches = 0
    /\ extract_calls = 0
    /\ StratFresh

\* the fragment whose converter run the strategy thread is in
cur == chunk_i + 1

histVars == <<end_kind, conv_ok, over_age, observed, grace_waited, polls_after_exit>>

monVars == <<mon, mon_timer, mon_ret>>

\* Popen.terminate / Popen.kill: a signal is sent unless the child has been
\* seen to have exited
SendSignal(k, sig) ==
    pending' = IF child[k] = "running"
                 THEN [pending EXCEPT ![k] = @ \cup { sig }]
                 ELSE pending

\* chunked.py lines 20-35: split_html_content returns the fragments
Split ==
    /\ spc = "s_split"
    /\ split_calls' = split_calls + 1
    /\ chunk_paths' \in 0..MaxChunks
    /\ spc' = "s_loop"
    /\ UNCHANGED <<chunk_i, processed_chunks, chunk_launches, extract_calls>>
    /\ UNCHANGED <<success_rate_threshold, child, retcode, pending, over, mem_changed,
                   wait_left, sleep_left, exec_ret, result>>
    /\ UNCHANGED <<monVars, histVars, pipeOnlyVars>>

\* chunked.py lines 38-56 and pandoc_executor.py lines 47-72: the next pass of
\* the loop starts the converter on fragment chunk_i + 1, starts its monitor
\* thread and enters process.wait(timeout)
Launch ==
    /\ spc = "s_loop"
    /\ chunk_i < chunk_paths
    /\ chunk_launches' = chunk_launches + 1
    /\ child' = [child EXCEPT ![cur] = "running"]
    /\ mon' = [mon EXCEPT ![cur] = "m_init"]
    /\ wait_left' = TimeoutTicks
    /\ mem_changed' = FALSE
    /\ spc' = "x_wait"
    /\ UNCHANGED <<chunk_paths, chunk_i, processed_chunks, split_calls, extract_calls>>
    /\ UNCHANGED <<success_rate_threshold, retcode, pending, over, mon_timer, mon_ret,
                   sleep_left, exec_ret, result>>
    /\ UNCHANGED <<histVars, pipeOnlyVars>>

\* how execute_with_monitoring reads the exit status (lines 81-99)
KindOfExit(rc) ==
    CASE rc = 0 -> "ok"
      [] rc = -9 -> "killed"
      [] rc = -15 -> "terminated"
      [] OTHER -> "nonzero"

\* a fragment whose run failed is taken again: the only difference to Record
Record_mut_retry(k, success, exists) ==
    /\ exec_ret' = [exec_ret EXCEPT ![k] = IF success THEN "True" ELSE "False"]
    /\ conv_ok' = [conv_ok EXCEPT ![k] = success /\ exists]
    /\ processed_chunks' = IF success /\ exists
                             THEN Append(processed_chunks, k)
                             ELSE processed_chunks
    /\ chunk_i' = IF success THEN chunk_i + 1 ELSE chunk_i
    /\ spc' = "s_loop"

\* a failed fragment ends the loop: the only difference to Record
Record_mut_break(k, success, exists) ==
    /\ exec_ret' = [exec_ret EXCEPT ![k] = IF success THEN "True" ELSE "False"]
    /\ conv_ok' = [conv_ok EXCEPT ![k] = success /\ exists]
    /\ processed_chunks' = IF success /\ exists
                             THEN Append(processed_chunks, k)
                             ELSE processed_chunks
    /\ chunk_i' = IF success /\ exists THEN chunk_i + 1 ELSE chunk_paths
    /\ spc' = "s_loop"

\* chunked.py lines 57-78: the ChunkResult is recorded and the output is
\* appended to processed_chunks when the run succeeded and its file exists
Record(k, success, exists) ==
    /\ exec_ret' = [exec_ret EXCEPT ![k] = IF success THEN "True" ELSE "False"]
    /\ conv_ok' = [conv_ok EXCEPT ![k] = success /\ exists]
    /\ processed_chunks' = IF success /\ exists
                             THEN Append(processed_chunks, k)
                             ELSE processed_chunks
    /\ chunk_i' = chunk_i + 1
    /\ spc' = "s_loop"

\* pandoc_executor.py lines 72 and 81-99: process.wait returns the exit
\* status; 0 is success, every other status returns False
WaitReturns ==
    /\ spc = "x_wait"
    /\ child[cur] = "exited"
    /\ end_kind' = [end_kind EXCEPT ![cur] = KindOfExit(retcode[cur])]
    /\ \E exists \in BOOLEAN : Record(cur, retcode[cur] = 0, exists)
    /\ UNCHANGED <<chunk_paths, split_calls, chunk_launches, extract_calls>>
    /\ UNCHANGED <<success_rate_threshold, child, retcode, pending, over, mem_changed,
                   wait_left, sleep_left, result>>
    /\ UNCHANGED <<monVars, over_age, observed, grace_waited, polls_after_exit,
                   pipeOnlyVars>>

\* pandoc_executor.py lines 73-76: TimeoutExpired, terminate, sleep
WaitTimesOut ==
    /\ spc = "x_wait"
    /\ child[cur] = "running"
    /\ wait_left = 0
    /\ SendSignal(cur, "TERM")
    /\ sleep_left' = TimeoutGrace
    /\ spc' = "x_timeout_sleep"
    /\ UNCHANGED <<chunk_paths, chunk_i, processed_chunks, split_calls, chunk_launches,
                   extract_calls>>
    /\ UNCHANGED <<success_rate_threshold, child, retcode, over, mem_changed, wait_left,
                   exec_ret, result>>
    /\ UNCHANGED <<monVars, histVars, pipeOnlyVars>>

\* pandoc_executor.py lines 77-79: after the sleep, kill if poll() is None,
\* and return False without waiting for the child
TimeoutReturns ==
    /\ spc = "x_timeout_sleep"
    /\ sleep_left = 0
    /\ SendSignal(cur, "KILL")
    /\ end_kind' = [end_kind EXCEPT ![cur] = "timeout"]
    /\ Record(cur, FALSE, FALSE)
    /\ UNCHANGED <<chunk_paths, split_calls, chunk_launches, extract_calls>>
    /\ UNCHANGED <<success_rate_threshold, child, retcode, over, mem_changed, wait_left,
                   sleep_left, result>>
    /\ UNCHANGED <<monVars, over_age, observed, grace_waited, polls_after_exit,
                   pipeOnlyVars>>

\* chunked.py lines 38-78 with execute_with_monitoring taken as one step that
\* returns True or False
ConvertFragment ==
    /\ spc = "s_loop"
    /\ chunk_i < chunk_paths
    /\ chunk_launches' = chunk_launches + 1
    /\ \E success \in BOOLEAN, exists \in BOOLEAN : Record(cur, success, exists)
    /\ UNCHANGED <<chunk_paths, split_calls, extract_calls>>
    /\ UNCHANGED <<success_rate_threshold, child, retcode, pending, over, mem_changed,
                   wait_left, sleep_left, result>>
    /\ UNCHANGED <<monVars, end_kind, over_age, observed, grace_waited, polls_after_exit,
                   pipeOnlyVars>>

AfterLoop ==
    /\ spc = "s_loop"
    /\ chunk_i = chunk_paths

Return(r) ==
    /\ result' = r
    /\ spc' = "s_done"
    /\ UNCHANGED <<chunk_paths, chunk_i, processed_chunks, split_calls, chunk_launches>>
    /\ UNCHANGED <<success_rate_threshold, child, retcode, pending, over, mem_changed,
                   wait_left, sleep_left, exec_ret>>
    /\ UNCHANGED <<monVars, histVars, pipeOnlyVars>>

\* chunked.py lines 131-137: the result of the handler of process, with the
\* defaults of ProcessingResult
FailedResult ==
    [success |-> FALSE, method |-> "chunked", chunk_count |-> 0,
     success_rate |-> << 1, 1 >>, output |-> NoOutput]

\* TextExtractor.extract_from_html: the extracted text is written; or a step
\* fails and the handler writes a placeholder; or the handler's own write
\* fails as well (the directory is full or not writable) and the exception
\* leaves the function
ExtractOutcomes == { "extracted", "placeholder", "raised" }

\* chunked.py line 80 with no fragment: the division raises, the handler of
\* lines 131-137 returns a failed result
ZeroFragments ==
    /\ AfterLoop
    /\ chunk_paths = 0
    /\ extract_calls' = extract_calls
    /\ Return(FailedResult)

\* the loop over the fragments is entered again after the extraction: the
\* only difference to Degrade
Degrade_mut_back_to_loop ==
    /\ AfterLoop
    /\ chunk_paths > 0
    /\ after_chunks(Len(processed_chunks), chunk_paths, success_rate_threshold)
           \in { "all_failed", "low_rate" }
    /\ extract_calls = 0
    /\ extract_calls' = extract_calls + 1
    /\ chunk_i' = 0
    /\ processed_chunks' = << >>
    /\ UNCHANGED <<spc, result, chunk_paths, split_calls, chunk_launches>>
    /\ UNCHANGED <<success_rate_threshold, child, retcode, pending, over, mem_changed,
                   wait_left, sleep_left, exec_ret>>
    /\ UNCHANGED <<monVars, histVars, pipeOnlyVars>>

\* chunked.py lines 83-108: text extraction when no fragment was converted
\* (reported rate 0.0) or when the rate is below the threshold; an exception
\* of the extractor reaches the handler of lines 131-137
Degrade ==
    /\ AfterLoop
    /\ chunk_paths > 0
    /\ LET why == after_chunks(Len(processed_chunks), chunk_paths, success_rate_threshold)
       IN  /\ why \in { "all_failed", "low_rate" }
           /\ extract_calls' = extract_calls + 1
           /\ \E written \in ExtractOutcomes :
                IF written = "raised"
                  THEN Return(FailedResult)
                  ELSE Return([success |-> TRUE, method |-> "text_extraction",
                               chunk_count |-> chunk_paths,
                               success_rate |-> IF why = "all_failed"
                                                  THEN << 0, 1 >>
                                                  ELSE << Len(processed_chunks), chunk_paths >>,
                               output |-> [kind |-> written, parts |-> << >>]])

\* ChunkingService.merge_chunks: the outputs in the order of the list, or the
\* first output that exists when the concatenation raises
merge_chunks(chunk_results, merge_fails) ==
    IF merge_fails
      THEN [kind |-> "first_chunk", parts |-> << chunk_results[1] >>]
      ELSE [kind |-> "merged", parts |-> chunk_results]

\* the fragments that were converted are counted instead of the fragments of
\* the split: the only difference to Merge
Merge_mut_counts_processed ==
    /\ AfterLoop
    /\ chunk_paths > 0
    /\ after_chunks(Len(processed_chunks), chunk_paths, success_rate_threshold) = "merge"
    /\ extract_calls' = extract_calls
    /\ \E merge_fails \in BOOLEAN :
         Return([success |-> TRUE, method |-> "chunked",
                 chunk_count |-> Len(processed_chunks),
                 success_rate |-> << Len(processed_chunks), chunk_paths >>,
                 output |-> merge_chunks(processed_chunks, merge_fails)])

\* chunked.py lines 109-129: the converted fragments are merged
Merge ==
    /\ AfterLoop
    /\ chunk_paths > 0
    /\ after_chunks(Len(processed_chunks), chunk_paths, success_rate_threshold) = "merge"
    /\ extract_calls' = extract_calls
    /\ \E merge_fails \in BOOLEAN :
         Return([success |-> TRUE, method |-> "chunked", chunk_count |-> chunk_paths,
                 success_rate |-> << Len(processed_chunks), chunk_paths >>,
                 output |-> merge_chunks(processed_chunks, merge_fails)])

-----------------------------------------------------------------------------
(* MemoryMonitor.monitor_process, one thread per converter process         *)

mainVars == <<spc, chunk_paths, chunk_i, processed_chunks, split_calls, chunk_launches,
              extract_calls, success_rate_threshold, wait_left, sleep_left, exec_ret,
              result>>

MonDone(k, ret) ==
    /\ mon' = [mon EXCEPT ![k] = "m_done"]
    /\ mon_ret' = [mon_ret EXCEPT ![k] = ret]
    /\ polls_after_exit' = [polls_after_exit EXCEPT ![k] = 0]

\* memory.py line 50: psutil.Process(pid) raises when the process is gone
\* (handler of lines 67-69 returns True)
MonInit(k) ==
    /\ mon[k] = "m_init"
    /\ IF child[k] = "running"
         THEN /\ mon' = [mon EXCEPT ![k] = "m_loop"]
              /\ UNCHANGED <<mon_ret, polls_after_exit>>
         ELSE MonDone(k, "True")
    /\ UNCHANGED <<mainVars, child, retcode, pending, over, mem_changed, mon_timer,
                   end_kind, conv_ok, over_age, observed, grace_waited, pipeOnlyVars>>

MonCheck_mut_no_exit_test(k) ==
    /\ mon[k] = "m_loop"
    /\ mon' = [mon EXCEPT ![k] = "m_read"]
    /\ UNCHANGED <<mon_ret, polls_after_exit>>
    /\ UNCHANGED <<mainVars, child, retcode, pending, over, mem_changed, mon_timer,
                   end_kind, conv_ok, over_age, observed, grace_waited, pipeOnlyVars>>

\* memory.py line 51: while process.poll() is None; line 66: return True
MonCheck(k) ==
    /\ mon[k] = "m_loop"
    /\ IF child[k] = "running"
         THEN /\ mon' = [mon EXCEPT ![k] = "m_read"]
              /\ UNCHANGED <<mon_ret, polls_after_exit>>
         ELSE MonDone(k, "True")
    /\ UNCHANGED <<mainVars, child, retcode, pending, over, mem_changed, mon_timer,
                   end_kind, conv_ok, over_age, observed, grace_waited, pipeOnlyVars>>

\* memory.py lines 53-57 and 63: the memory poll of a running process; above
\* the limit the monitor sends terminate and starts its grace sleep,
\* otherwise it sleeps one polling interval
MonPoll(k) ==
    /\ mon[k] = "m_read"
    /\ child[k] = "running"
    /\ IF over[k]
         THEN /\ SendSignal(k, "TERM")
              /\ observed' = [observed EXCEPT ![k] = TRUE]
              /\ mon' = [mon EXCEPT ![k] = "m_grace"]
              /\ mon_timer' = [mon_timer EXCEPT ![k] = GracePeriod]
         ELSE /\ pending' = pending
              /\ observed' = observed
              /\ mon' = [mon EXCEPT ![k] = "m_sleep"]
              /\ mon_timer' = [mon_timer EXCEPT ![k] = PollInterval]
    /\ UNCHANGED <<mainVars, child, retcode, over, mem_changed, mon_ret, end_kind,
                   conv_ok, over_age, grace_waited, polls_after_exit,
                   pipeOnlyVars>>

\* memory.py lines 53 and 64-65: the process exited between poll() and
\* memory_info(); psutil raises NoSuchProcess and the loop breaks, or it
\* reads the zero counters of the unreaped process and the monitor sleeps
MonPollExited(k) ==
    /\ mon[k] = "m_read"
    /\ child[k] = "exited"
    /\ polls_after_exit' = [polls_after_exit EXCEPT ![k] = @ + 1]
    /\ \/ mon' = [mon EXCEPT ![k] = "m_break"] /\ mon_timer' = mon_timer
       \/ /\ mon' = [mon EXCEPT ![k] = "m_sleep"]
          /\ mon_timer' = [mon_timer EXCEPT ![k] = PollInterval]
    /\ UNCHANGED <<mainVars, mon_ret, child, retcode, pending, over, mem_changed, end_kind,
                   conv_ok, over_age, observed, grace_waited, pipeOnlyVars>>

\* memory.py lines 64-66: break, return True
MonBreak(k) ==
    /\ mon[k] = "m_break"
    /\ MonDone(k, "True")
    /\ UNCHANGED <<mainVars, child, retcode, pending, over, mem_changed, mon_timer,
                   end_kind, conv_ok, over_age, observed, grace_waited, pipeOnlyVars>>

\* memory.py line 63: the sleep of one polling interval is over
MonWake(k) ==
    /\ mon[k] = "m_sleep"
    /\ mon_timer[k] = 0
    /\ mon' = [mon EXCEPT ![k] = "m_loop"]
    /\ UNCHANGED <<mainVars, child, retcode, pending, over, mem_changed, mon_timer,
                   mon_ret, histVars, pipeOnlyVars>>

MonAfterGrace_mut_no_wait(k) ==
    /\ mon[k] = "m_grace"
    /\ SendSignal(k, "KILL")
    /\ MonDone(k, "False")
    /\ UNCHANGED <<mainVars, child, retcode, over, mem_changed, mon_timer, end_kind,
                   conv_ok, over_age, observed, grace_waited, pipeOnlyVars>>

\* memory.py lines 58-61: after the grace sleep, kill if poll() is None, and
\* return False
MonAfterGrace(k) ==
    /\ mon[k] = "m_grace"
    /\ mon_timer[k] = 0
    /\ SendSignal(k, "KILL")
    /\ MonDone(k, "False")
    /\ UNCHANGED <<mainVars, child, retcode, over, mem_changed, mon_timer, end_kind,
                   conv_ok, over_age, observed, grace_waited, pipeOnlyVars>>

-----------------------------------------------------------------------------
(* The converter process of fragment k                                     *)

\* the process ends; its status is kept for process.wait(), which nobody
\* calls again once execute_with_monitoring has taken the timeout path
Exit(k, rc) ==
    /\ child' = [child EXCEPT ![k] = "exited"]
    /\ retcode' = [retcode EXCEPT ![k] = IF spc = "x_wait" /\ k = cur THEN rc ELSE @]
    /\ pending' = [pending EXCEPT ![k] = {}]
    /\ over' = [over EXCEPT ![k] = FALSE]
    /\ over_age' = [over_age EXCEPT ![k] = 0]

\* the converter ends on its own, with status 0 or with an error status
ChildExits(k) ==
    /\ child[k] = "running"
    /\ \E rc \in { 0, 1 } : Exit(k, rc)
    /\ UNCHANGED <<mainVars, mem_changed, monVars, end_kind, conv_ok, observed,
                   grace_waited, polls_after_exit, pipeOnlyVars>>

\* SIGTERM is delivered: the process ends with status -15, or it handles the
\* signal and goes on
TermDelivered(k) ==
    /\ child[k] = "running"
    /\ "TERM" \in pending[k]
    /\ \/ Exit(k, -15)
       \/ /\ pending' = [pending EXCEPT ![k] = @ \ { "TERM" }]
          /\ UNCHANGED <<child, retcode, over, over_age>>
    /\ UNCHANGED <<mainVars, mem_changed, monVars, end_kind, conv_ok, observed,
                   grace_waited, polls_after_exit, pipeOnlyVars>>

\* SIGKILL is delivered: the process ends with status -9
KillDelivered(k) ==
    /\ child[k] = "running"
    /\ "KILL" \in pending[k]
    /\ Exit(k, -9)
    /\ UNCHANGED <<mainVars, mem_changed, monVars, end_kind, conv_ok, observed,
                   grace_waited, polls_after_exit, pipeOnlyVars>>

\* the resident memory of the process crosses the limit, at most once a second
MemoryCrosses(k) ==
    /\ child[k] = "running"
    /\ ~mem_changed
    /\ mem_changed' = TRUE
    /\ over' = [over EXCEPT ![k] = ~@]
    /\ over_age' = IF observed[k] THEN over_age ELSE [over_age EXCEPT ![k] = 0]
    /\ UNCHANGED <<mainVars, child, retcode, pending, monVars, end_kind, conv_ok,
                   observed, grace_waited, polls_after_exit, pipeOnlyVars>>

-----------------------------------------------------------------------------
(* The clock                                                               *)

\* a thread has a statement to run, or a signal waits for delivery
Busy ==
    \/ spc \in { "s_split", "s_loop" }
    \/ spc = "x_wait" /\ (child[cur] = "exited" \/ wait_left = 0)
    \/ spc = "x_timeout_sleep" /\ sleep_left = 0
    \/ \E k \in Frags :
          \/ mon[k] \in { "m_init", "m_loop", "m_read", "m_break" }
          \/ mon[k] \in { "m_sleep", "m_grace" } /\ mon_timer[k] = 0
          \/ child[k] = "running" /\ pending[k] # {}

\* somebody is waiting for time to pass
Waiting ==
    \/ spc \in { "x_wait", "x_timeout_sleep" }
    \/ \E k \in Frags : mon[k] \in { "m_sleep", "m_grace" } \/ child[k] = "running"

Dec(n) == IF n > 0 THEN n - 1 ELSE 0

AgeCap == PollInterval + GracePeriod + 2

\* one second passes
Tick ==
    /\ ~Busy
    /\ Waiting
    /\ wait_left' = IF spc = "x_wait" THEN Dec(wait_left) ELSE wait_left
    /\ sleep_left' = IF spc = "x_timeout_sleep" THEN Dec(sleep_left) ELSE sleep_left
    /\ mon_timer' = [k \in Frags |->
                       IF mon[k] \in { "m_sleep", "m_grace" } THEN Dec(mon_timer[k])
                                                             ELSE mon_timer[k]]
    /\ grace_waited' = [k \in Frags |->
                          IF mon[k] = "m_grace" THEN grace_waited[k] + 1
                                                ELSE grace_waited[k]]
    /\ over_age' = [k \in Frags |->
                      IF child[k] = "running" /\ (over[k] \/ observed[k]) /\ over_age[k] < AgeCap
                        THEN over_age[k] + 1
                        ELSE over_age[k]]
    /\ mem_changed' = FALSE
    /\ UNCHANGED <<spc, chunk_paths, chunk_i, processed_chunks, split_calls,
                   chunk_launches, extract_calls, success_rate_threshold, exec_ret, result>>
    /\ UNCHANGED <<child, retcode, pending, over, mon, mon_ret, end_kind, conv_ok,
                   observed, polls_after_exit, pipeOnlyVars>>

\* the statements of process that both specifications share
AfterLoopNext ==
    \/ ZeroFragments
    \/ Degrade
    \/ Merge

StrategyNext ==
    \/ Split
    \/ ConvertFragment
    \/ AfterLoopNext

ExecNext ==
    \/ Split
    \/ Launch
    \/ WaitReturns
    \/ WaitTimesOut
    \/ TimeoutReturns
    \/ AfterLoopNext
    \/ \E k \in Frags :
          \/ MonInit(k)
          \/ MonCheck(k)
          \/ MonPoll(k)
          \/ MonPollExited(k)
          \/ MonBreak(k)
          \/ MonWake(k)
          \/ MonAfterGrace(k)
          \/ ChildExits(k)
          \/ TermDelivered(k)
          \/ KillDelivered(k)
          \/ MemoryCrosses(k)
    \/ Tick

-----------------------------------------------------------------------------
(* Specifications                                                          *)

(***************************************************************************)
(* SingleFileStrategy.process: one run of execute_with_monitoring on the   *)
(* whole file; the process, its monitor thread and the clock are those of  *)
(* the sections above, the run being number 1 (cur).                       *)
(***************************************************************************)
SingleResult(success) ==
    [success |-> success, method |-> "single_file", chunk_count |-> 0,
     success_rate |-> << 1, 1 >>,
     output |-> IF success THEN [kind |-> "converted", parts |-> << >>] ELSE NoOutput]

\* the state in which SingleFileStrategy.process is called
SingleStart ==
    /\ spc = "f_start"
    /\ success_rate_threshold = DefaultThreshold
    /\ chunk_paths = 0
    /\ chunk_i = 0
    /\ processed_chunks = << >>
    /\ split_calls = 0
    /\ chunk_launches = 0
    /\ extract_calls = 0
    /\ StratFresh

\* the base timeout is the only difference to SingleLaunch
SingleLaunch_mut_base_timeout ==
    /\ spc = "f_start"
    /\ chunk_launches' = chunk_launches + 1
    /\ child' = [child EXCEPT ![cur] = "running"]
    /\ mon' = [mon EXCEPT ![cur] = "m_init"]
    /\ wait_left' = TimeoutTicks
    /\ mem_changed' = FALSE
    /\ spc' = "x_wait"
    /\ UNCHANGED <<chunk_paths, chunk_i, processed_chunks, split_calls, extract_calls>>
    /\ UNCHANGED <<success_rate_threshold, retcode, pending, over, mon_timer, mon_ret,
                   sleep_left, exec_ret, result>>
    /\ UNCHANGED <<histVars, pipeOnlyVars>>

\* single_file.py lines 22-41 and pandoc_executor.py lines 47-72: the command
\* is built, the converter and its monitor thread are started, and
\* process.wait is entered with context.config.timeout * 3
SingleLaunch ==
    /\ spc = "f_start"
    /\ chunk_launches' = chunk_launches + 1
    /\ child' = [child EXCEPT ![cur] = "running"]
    /\ mon' = [mon EXCEPT ![cur] = "m_init"]
    /\ wait_left' = TimeoutTicks * 3
    /\ mem_changed' = FALSE
    /\ spc' = "x_wait"
    /\ UNCHANGED <<chunk_paths, chunk_i, processed_chunks, split_calls, extract_calls>>
    /\ UNCHANGED <<success_rate_threshold, retcode, pending, over, mon_timer, mon_ret,
                   sleep_left, exec_ret, result>>
    /\ UNCHANGED <<histVars, pipeOnlyVars>>

\* pandoc_executor.py lines 54-60 and 101-103: the log files cannot be opened
\* or the converter cannot be started; execute_with_monitoring returns False
\* (single_file.py lines 43-48)
SingleLaunchFails ==
    /\ spc = "f_start"
    /\ chunk_launches' = chunk_launches + 1
    /\ exec_ret' = [exec_ret EXCEPT ![cur] = "False"]
    /\ result' = SingleResult(FALSE)
    /\ spc' = "f_done"
    /\ UNCHANGED <<chunk_paths, chunk_i, processed_chunks, split_calls, extract_calls>>
    /\ UNCHANGED <<success_rate_threshold, child, retcode, pending, over, mem_changed,
                   wait_left, sleep_left>>
    /\ UNCHANGED <<monVars, histVars, pipeOnlyVars>>

\* pandoc_executor.py lines 72 and 81-99, single_file.py lines 43-68: the exit
\* status is read; the result is a success when the status is 0 and the
\* output file exists, a failed Single-File result otherwise
SingleWaitReturns ==
    /\ spc = "x_wait"
    /\ child[cur] = "exited"
    /\ end_kind' = [end_kind EXCEPT ![cur] = KindOfExit(retcode[cur])]
    /\ exec_ret' = [exec_ret EXCEPT ![cur] = IF retcode[cur] = 0 THEN "True" ELSE "False"]
    /\ \E exists \in BOOLEAN :
          /\ conv_ok' = [conv_ok EXCEPT ![cur] = retcode[cur] = 0 /\ exists]
          /\ result' = SingleResult(retcode[cur] = 0 /\ exists)
    /\ spc' = "f_done"
    /\ UNCHANGED <<chunk_paths, chunk_i, processed_chunks, split_calls, chunk_launches,
                   extract_calls>>
    /\ UNCHANGED <<success_rate_threshold, child, retcode, pending, over, mem_changed,
                   wait_left, sleep_left>>
    /\ UNCHANGED <<monVars, over_age, observed, grace_waited, polls_after_exit,
                   pipeOnlyVars>>

\* pandoc_executor.py lines 77-79, single_file.py lines 43-48: after the
\* sleep, kill if poll() is None; False makes a failed Single-File result
SingleTimeoutReturns ==
    /\ spc = "x_timeout_sleep"
    /\ sleep_left = 0
    /\ SendSignal(cur, "KILL")
    /\ end_kind' = [end_kind EXCEPT ![cur] = "timeout"]
    /\ exec_ret' = [exec_ret EXCEPT ![cur] = "False"]
    /\ result' = SingleResult(FALSE)
    /\ spc' = "f_done"
    /\ UNCHANGED <<chunk_paths, chunk_i, processed_chunks, split_calls, chunk_launches,
                   extract_calls>>
    /\ UNCHANGED <<success_rate_threshold, child, retcode, over, mem_changed, wait_left,
                   sleep_left>>
    /\ UNCHANGED <<monVars, conv_ok, over_age, observed, grace_waited, polls_after_exit,
                   pipeOnlyVars>>

SingleNext ==
    \/ SingleLaunch
    \/ SingleLaunchFails
    \/ SingleWaitReturns
    \/ WaitTimesOut
    \/ SingleTimeoutReturns
    \/ \E k \in Frags :
          \/ MonInit(k)
          \/ MonCheck(k)
          \/ MonPoll(k)
          \/ MonPollExited(k)
          \/ MonBreak(k)
          \/ MonWake(k)
          \/ MonAfterGrace(k)
          \/ ChildExits(k)
          \/ TermDelivered(k)
          \/ KillDelivered(k)
          \/ MemoryCrosses(k)
    \/ Tick

(***************************************************************************)
(* ChunkingService: a string is a sequence of atoms, an atom being one of  *)
(* the boundary tokens of _split_large_element, a tag, or a run of         *)
(* characters that holds no boundary token.                                *)
(***************************************************************************)
AtomLen(a) ==
    CASE a = "</div>"  -> 6
      [] a = "</p>"    -> 4
      [] a = "</span>" -> 7
      [] a = "</li>"   -> 5
      [] a = "\n\n"    -> 2
      [] a = "<div>"   -> 5
      [] a = "<p>"     -> 3
      [] a = "<ul>"    -> 4
      [] a = "</ul>"   -> 5
      [] a = "<li>"    -> 4
      [] a = "<pre>"   -> 5
      [] a = "</pre>"  -> 6
      [] a = "t40"     -> 40
      [] a = "t93"     -> 93
      [] a = "t100"    -> 100
      [] a = "t300"    -> 300
      [] a = "t493"    -> 493
      [] a = "t600"    -> 600

Atoms == { "</div>", "</p>", "</span>", "</li>", "\n\n", "<div>", "<p>", "<ul>",
           "</ul>", "<li>", "<pre>", "</pre>", "t40", "t93", "t100", "t300",
           "t493", "t600" }

\* split_patterns, in the order they are tried
split_patterns == << "</div>", "</p>", "</span>", "</li>", "\n\n" >>

RECURSIVE StrLen(_)
\* len(str)
StrLen(s) == IF s = << >> THEN 0 ELSE AtomLen(Head(s)) + StrLen(Tail(s))

RECURSIVE Count(_, _)
\* occurrences of atom a in s
Count(a, s) ==
    IF s = << >> THEN 0
    ELSE (IF Head(s) = a THEN 1 ELSE 0) + Count(a, Tail(s))

RECURSIVE Flatten(_)
\* the strings of a list, one after the other
Flatten(ss) == IF ss = << >> THEN << >> ELSE Head(ss) \o Flatten(Tail(ss))

\* the values max_chunk_size is called with
MaxChunkSizes == { 500 }

\* elements of a body: name is the tag (NoName: a text node, element.name is None)
NoName == "none"

PSmall    == [name |-> "p",   str |-> << "<p>", "t93", "</p>" >>]
TextNode  == [name |-> NoName, str |-> << "t40" >>]
PLimit    == [name |-> "p",   str |-> << "<p>", "t493", "</p>" >>]
PreLarge  == [name |-> "pre", str |-> << "<pre>", "t600", "</pre>" >>]
UlLarge   == [name |-> "ul",
              str |-> << "<ul>", "<li>", "t300", "</li>", "<li>", "t300", "</li>",
                         "</ul>" >>]
DivNested == [name |-> "div",
              str |-> << "<div>", "<div>", "t100", "</div>", "<p>", "t300", "</p>",
                         "<p>", "t300", "</p>", "</div>" >>]

DivBlank  == [name |-> "div",
              str |-> << "<div>", "<div>", "<div>", "t600", "</div>", "</div>",
                         "<p>", "t600", "</p>", "</div>" >>]

Elements == { PSmall, TextNode, PLimit, PreLarge, UlLarge, DivNested, DivBlank }

RECURSIVE SeqsUpTo(_, _)
\* the sequences over S of length at most n
SeqsUpTo(S, n) ==
    IF n = 0 THEN { << >> }
    ELSE LET shorter == SeqsUpTo(S, n - 1)
         IN  shorter \cup { Append(q, x) : q \in shorter, x \in S }

Bodies == SeqsUpTo(Elements, MaxElems)

\* len(str(head)) of the documents that have a head
HeadLen == 30

\* len(input_path.stem)
StemLen == 6

\* line 104: head_size = len(str(head)) if head else 1000
head_size(head) == IF head THEN HeadLen ELSE 1000

\* line 105
base_html_size(head) == head_size(head) + 200

\* _create_html_chunk: the doctype line, <html>, the head (the document's, or
\* <head><title>{stem} - Chunk {n}</title></head>), <body>, the elements
\* that have a name, </body></html>
HtmlWrapperLen == 42

MinimalHeadLen == 38 + StemLen

named_elements(body_elements) == SelectSeq(body_elements, LAMBDA e : e.name # NoName)

element_strs(body_elements) == [i \in 1..Len(body_elements) |-> body_elements[i].str]

\* chunk_path of _create_html_chunk (line 171) and of _create_text_chunk
\* (line 148, called with the stem f"{original_stem}_subelement")
html_chunk_path(chunk_number) == << "_chunk_", chunk_number >>

text_chunk_path(chunk_number) == << "_subelement_textchunk_", chunk_number >>

\* the positions in the body of the elements of a list
positions(elements) == { elements[i].pos : i \in 1..Len(elements) }

\* header: the head the written file has, the document's ("original") or
\* the title made at lines 189-193 ("minimal")
create_html_chunk(chunk_number, head, elements) ==
    LET content == Flatten(element_strs(named_elements(elements)))
    IN  [kind |-> "html",
         path |-> html_chunk_path(chunk_number),
         header |-> IF head THEN "original" ELSE "minimal",
         elems |-> positions(elements),
         content |-> content,
         size |-> HtmlWrapperLen + (IF head THEN HeadLen ELSE MinimalHeadLen)
                      + StrLen(content)]

\* _create_text_chunk: the f-string around the content, for the stem
\* f"{original_stem}_subelement"
TextWrapperLen == 123 + StemLen + 11

\* the file has the head of the f-string: a title and the charset
create_text_chunk(chunk_number, content, pos) ==
    [kind |-> "text",
     path |-> text_chunk_path(chunk_number),
     header |-> "minimal",
     elems |-> { pos },
     content |-> content,
     size |-> TextWrapperLen + StrLen(content)]

RECURSIVE SplitFrom(_, _, _, _)
\* str.split(pattern): the pieces between the occurrences of the pattern
SplitFrom(s, pattern, piece, acc) ==
    IF s = << >> THEN Append(acc, piece)
    ELSE IF Head(s) = pattern
         THEN SplitFrom(Tail(s), pattern, << >>, Append(acc, piece))
         ELSE SplitFrom(Tail(s), pattern, Append(piece, Head(s)), acc)

str_split(s, pattern) == SplitFrom(s, pattern, << >>, << >>)

RECURSIVE Rejoin(_, _, _, _, _)
\* lines 237-242: a part is joined to the piece before it, with the pattern,
\* while the piece stays below max_size; otherwise the part starts a piece
Rejoin(parts, i, rejoined, pattern, max_size) ==
    IF i > Len(parts) THEN rejoined
    ELSE LET last == rejoined[Len(rejoined)]
         IN  IF StrLen(last) + AtomLen(pattern) + StrLen(parts[i]) < max_size
             THEN Rejoin(parts, i + 1,
                         [rejoined EXCEPT ![Len(rejoined)] =
                              last \o << pattern >> \o parts[i]],
                         pattern, max_size)
             ELSE Rejoin(parts, i + 1, Append(rejoined, parts[i]), pattern, max_size)

\* lines 230-246 for one pattern: tried only while best_chunks is one piece
\* that is too large
try_pattern(best_chunks, pattern, max_size) ==
    IF Len(best_chunks) = 1 /\ StrLen(best_chunks[1]) > max_size
    THEN LET parts == str_split(best_chunks[1], pattern)
         IN  Rejoin(parts, 2, << parts[1] >>, pattern, max_size)
    ELSE best_chunks

RECURSIVE TryPatterns(_, _, _)
TryPatterns(best_chunks, k, max_size) ==
    IF k > Len(split_patterns) THEN best_chunks
    ELSE TryPatterns(try_pattern(best_chunks, split_patterns[k], max_size),
                     k + 1, max_size)

\* chunk_content.strip() is empty
IsBlank(s) == \A i \in 1..Len(s) : s[i] = "\n\n"

\* _split_large_element: the pieces that are not blank, each as a text chunk
\* numbered base_chunk_num + its index in best_chunks (lines 249-252)
split_large_element(element, base_chunk_num, max_size) ==
    LET best_chunks == TryPatterns(<< element.str >>, 1, max_size)
        numbered == [i \in 1..Len(best_chunks) |->
                        create_text_chunk(base_chunk_num + (i - 1), best_chunks[i],
                                          element.pos)]
    IN  SelectSeq(numbered, LAMBDA c : ~IsBlank(c.content))

OutputFormats == { "md", "markdown", "txt", "plain", "html" }

\* lines 276-281
separator(fmt) ==
    IF fmt \in { "md", "markdown" } THEN "\n\n---\n\n"
    ELSE IF fmt \in { "txt", "plain" } THEN "\n\n==================================================\n\n"
    ELSE "\n\n"

RECURSIVE MergeFrom(_, _, _, _, _)
\* lines 269-285: a fragment that exists is written, after a separator when
\* its index in the list is not the first
MergeFrom(chunk_results, exists, i, fmt, written) ==
    IF i > Len(chunk_results) THEN written
    ELSE IF exists[i]
         THEN MergeFrom(chunk_results, exists, i + 1, fmt,
                        (IF i > 1
                         THEN Append(written, [kind |-> "separator",
                                               text |-> separator(fmt)])
                         ELSE written)
                            \o << [kind |-> "content", index |-> i,
                                   text |-> chunk_results[i].content] >>)
         ELSE MergeFrom(chunk_results, exists, i + 1, fmt, written)

merge_chunks_written(chunk_results, exists, fmt) ==
    MergeFrom(chunk_results, exists, 1, fmt, << >>)

SplitIdle ==
    /\ sp = "idle"
    /\ soup = [head |-> TRUE, body |-> << >>]
    /\ max_chunk_size = 500
    /\ output_format = "md"
    /\ element_i = 1
    /\ current_chunk_elements = << >>
    /\ current_chunk_size = 0
    /\ chunk_num = 0
    /\ chunks = << >>
    /\ chunk_exists = << >>
    /\ merged = << >>

\* lines 90-101
SplitStart ==
    /\ sp = "split"
    /\ soup \in [head : BOOLEAN, body : Bodies]
    /\ max_chunk_size \in MaxChunkSizes
    /\ output_format \in OutputFormats
    /\ element_i = 1
    /\ current_chunk_elements = << >>
    /\ current_chunk_size = 0
    /\ chunk_num = 0
    /\ chunks = << >>
    /\ chunk_exists = << >>
    /\ merged = << >>

\* list(body.children): the elements, pos being the place of each in the body
body_elements ==
    [i \in 1..Len(soup.body) |->
        [name |-> soup.body[i].name, str |-> soup.body[i].str, pos |-> i]]

\* lines 107-134: one turn of the loop over body_elements
SplitElement ==
    /\ sp = "split"
    /\ element_i <= Len(body_elements)
    /\ LET element == body_elements[element_i]
           element_size == StrLen(element.str)
       IN  IF element_size > max_chunk_size
           THEN LET sub_chunks == split_large_element(element, chunk_num,
                                                          max_chunk_size)
                IN  /\ chunks' = chunks \o sub_chunks
                    /\ chunk_num' = chunk_num + Len(sub_chunks)
                    /\ UNCHANGED <<current_chunk_elements, current_chunk_size>>
           ELSE IF /\ current_chunk_size + element_size + base_html_size(soup.head)
                          > max_chunk_size
                   /\ current_chunk_elements # << >>
                THEN /\ chunks' = Append(chunks,
                                         create_html_chunk(chunk_num, soup.head,
                                                           current_chunk_elements))
                     /\ chunk_num' = chunk_num + 1
                     /\ current_chunk_elements' = << element >>
                     /\ current_chunk_size' = element_size
                ELSE /\ current_chunk_elements' = Append(current_chunk_elements, element)
                     /\ current_chunk_size' = current_chunk_size + element_size
                     /\ UNCHANGED <<chunks, chunk_num>>
    /\ element_i' = element_i + 1
    /\ UNCHANGED <<sp, soup, max_chunk_size, output_format, chunk_exists, merged>>
    /\ UNCHANGED <<pipeVars, stratOwnVars, invVars, cmdVars>>

\* lines 136-144: the elements left over make the last fragment
SplitFinal ==
    /\ sp = "split"
    /\ element_i > Len(body_elements)
    /\ chunks' = IF current_chunk_elements # << >>
                 THEN Append(chunks, create_html_chunk(chunk_num, soup.head,
                                                       current_chunk_elements))
                 ELSE chunks
    /\ sp' = "convert"
    /\ UNCHANGED <<soup, max_chunk_size, output_format, element_i,
                   current_chunk_elements, current_chunk_size, chunk_num,
                   chunk_exists, merged>>
    /\ UNCHANGED <<pipeVars, stratOwnVars, invVars, cmdVars>>

\* the fragments are converted by a converter that leaves the content as it
\* is; an output may be missing when merge_chunks looks for it
ConvertFragments ==
    /\ sp = "convert"
    /\ chunk_exists' \in [1..Len(chunks) -> BOOLEAN]
    /\ sp' = "merge"
    /\ UNCHANGED <<soup, max_chunk_size, output_format, element_i,
                   current_chunk_elements, current_chunk_size, chunk_num, chunks,
                   merged>>
    /\ UNCHANGED <<pipeVars, stratOwnVars, invVars, cmdVars>>

\* merge_chunks, lines 267-288
MergeWritten ==
    /\ sp = "merge"
    /\ merged' = merge_chunks_written(chunks, chunk_exists, output_format)
    /\ sp' = "done"
    /\ UNCHANGED <<soup, max_chunk_size, output_format, element_i,
                   current_chunk_elements, current_chunk_size, chunk_num, chunks,
                   chunk_exists>>
    /\ UNCHANGED <<pipeVars, stratOwnVars, invVars, cmdVars>>

ChunkingNext ==
    \/ SplitElement
    \/ SplitFinal
    \/ ConvertFragments
    \/ MergeWritten

(***************************************************************************)
(* The converter command: the input and output paths the command of one    *)
(* launch is built with.  A file name is the sequence of its parts, "."    *)
(* being a part of its own; a path is a directory and a file name.         *)
(***************************************************************************)
Dot == "."

InputFilenames ==
    { << "report", Dot, "html" >>, << "report", Dot, "HTML" >>,
      << "report", Dot, "md" >>, << "report", Dot, "txt" >>,
      << "report", Dot, "tar", Dot, "html" >>, << "report" >>,
      << Dot, "html" >>, << "notes", Dot, "html" >> }

CommandFormats == { "html", "html5", "markdown", "md", "plain", "txt", "docx" }

\* the index of the last "." that starts a suffix (0: the name has none);
\* a leading "." starts no suffix, nor does a "." at the end
LastDot(name) ==
    LET dots == { i \in 2..(Len(name) - 1) : name[i] = Dot }
    IN  IF dots = {} THEN 0 ELSE CHOOSE i \in dots : \A j \in dots : j <= i

\* pathlib: Path(name).stem
path_stem(name) ==
    IF LastDot(name) = 0 THEN name ELSE SubSeq(name, 1, LastDot(name) - 1)

\* pathlib: Path(name).suffix, without the "."
path_suffix(name) ==
    IF LastDot(name) = 0 THEN << >> ELSE SubSeq(name, LastDot(name) + 1, Len(name))

\* f"{stem}.{extension}"
with_extension(stem, extension) == stem \o << Dot, extension >>

\* models.py lines 9-27: get_output_extension
get_output_extension(fmt) ==
    CASE fmt = "plain"    -> "txt"
      [] fmt = "markdown" -> "md"
      [] fmt = "html5"    -> "html"
      [] OTHER            -> fmt

TempPath(name) == [dir |-> "temp_dir", name |-> name]

NoCommand == [by |-> "none", input |-> TempPath(<< >>), output |-> TempPath(<< >>)]

CmdIdle ==
    /\ cmd_pc = "idle"
    /\ input_filename = << "report", Dot, "html" >>
    /\ cmd_output_format = "html"
    /\ command = NoCommand

CmdStart ==
    /\ cmd_pc = "start"
    /\ input_filename \in InputFilenames
    /\ cmd_output_format \in CommandFormats
    /\ command = NoCommand

\* plugin.py line 685: the staged input
input_path == TempPath(input_filename)

Built(by, input, output) ==
    /\ command' = [by |-> by, input |-> input, output |-> output]
    /\ cmd_pc' = "built"
    /\ UNCHANGED <<input_filename, cmd_output_format>>
    /\ UNCHANGED <<pipeVars, stratOwnVars, invVars, splitVars>>

\* plugin.py lines 757-766: the command of single-file processing
BuildSingleCommand ==
    /\ cmd_pc = "start"
    /\ Built("execute", input_path,
             TempPath(with_extension(path_stem(input_filename), cmd_output_format)))

\* single_file.py lines 26-35: the same with the extension of the format; the
\* input is context.input_info.path, in the temporary directory or where the
\* caller left it
BuildSingleStrategyCommand ==
    /\ cmd_pc = "start"
    /\ \E dir \in { "temp_dir", "upload_dir" } :
          Built("single_file", [dir |-> dir, name |-> input_filename],
                TempPath(with_extension(path_stem(input_filename),
                                        get_output_extension(cmd_output_format))))

\* the fragments a split may return for the input: the first file written by
\* _create_html_chunk or _create_text_chunk, or the input itself when
\* splitting failed (chunking.py lines 40-43 and 83-85)
ChunkPaths ==
    { TempPath(path_stem(input_filename) \o << "_chunk_000", Dot, "html" >>),
      TempPath(path_stem(input_filename) \o << "_textchunk_000", Dot, "html" >>),
      input_path }

\* plugin.py lines 725-732 and chunked.py lines 42-50: the command of one
\* fragment; only .html inputs are chunked
BuildChunkCommand ==
    /\ cmd_pc = "start"
    /\ path_suffix(input_filename) \in { << "html" >>, << "HTML" >> }
    /\ \E chunk_path \in ChunkPaths :
          Built("chunk", chunk_path,
                TempPath(with_extension(path_stem(chunk_path.name), cmd_output_format)))

CommandNext ==
    \/ BuildSingleCommand
    \/ BuildSingleStrategyCommand
    \/ BuildChunkCommand

(***************************************************************************)
(* Concurrent invocations: Plugin.execute's mkdtemp and _move_to_downloads *)
(* (FileHandler.move_to_downloads is the same code) run by several         *)
(* invocations against one downloads directory.                            *)
(***************************************************************************)
Invocations == 1..MaxInvocations

\* Path(...).stem of the output file, taken from the uploaded file's name
Stems == { "report", "notes" }

\* str(uuid.uuid4())[:8]: eight hexadecimal digits of a random UUID; nothing
\* keeps two calls from drawing the same value
UniqueIds == 1..MaxIds

\* the names tempfile.mkdtemp may return
TempDirNames == 1..MaxInvocations

NoPath == << >>

InvIdle ==
    /\ inv_pc = [n \in Invocations |-> "idle"]
    /\ inv_temp_dir = [n \in Invocations |-> 0]
    /\ inv_stem = [n \in Invocations |-> "report"]
    /\ permanent_path = [n \in Invocations |-> NoPath]
    /\ temp_dirs = {}
    /\ downloads_dir = {}

\* one invocation arrives for an uploaded file
InvStart(n) ==
    /\ inv_pc[n] = "idle"
    /\ \E stem \in Stems : inv_stem' = [inv_stem EXCEPT ![n] = stem]
    /\ inv_pc' = [inv_pc EXCEPT ![n] = "start"]
    /\ UNCHANGED <<inv_temp_dir, permanent_path, temp_dirs, downloads_dir>>
    /\ UNCHANGED <<pipeVars, stratOwnVars, splitVars, cmdVars>>

\* tempfile.mkdtemp(prefix="pandoc_"): creates a directory no one else has
InvCreateTempDir(n) ==
    /\ inv_pc[n] = "start"
    /\ \E d \in TempDirNames \ temp_dirs :
        /\ temp_dirs' = temp_dirs \cup { d }
        /\ inv_temp_dir' = [inv_temp_dir EXCEPT ![n] = d]
    /\ inv_pc' = [inv_pc EXCEPT ![n] = "converted"]
    /\ UNCHANGED <<inv_stem, permanent_path, downloads_dir>>
    /\ UNCHANGED <<pipeVars, stratOwnVars, splitVars, cmdVars>>

\* the file name _move_to_downloads builds: f"{stem}_{unique_id}{suffix}"
safe_filename(stem, unique_id) == << stem, unique_id >>

\* _move_to_downloads up to the path: the name is built, never tested
InvChooseName(n) ==
    /\ inv_pc[n] = "converted"
    /\ \E unique_id \in UniqueIds :
        permanent_path' = [permanent_path EXCEPT
                              ![n] = safe_filename(inv_stem[n], unique_id)]
    /\ inv_pc' = [inv_pc EXCEPT ![n] = "named"]
    /\ UNCHANGED <<inv_temp_dir, inv_stem, temp_dirs, downloads_dir>>
    /\ UNCHANGED <<pipeVars, stratOwnVars, splitVars, cmdVars>>

\* shutil.move(str(temp_file), str(permanent_path)): a file already at the
\* path is replaced
InvMove(n) ==
    /\ inv_pc[n] = "named"
    /\ downloads_dir' =
           { f \in downloads_dir : f[1] # permanent_path[n] }
               \cup { << permanent_path[n], n >> }
    /\ inv_pc' = [inv_pc EXCEPT ![n] = "moved"]
    /\ UNCHANGED <<inv_temp_dir, inv_stem, permanent_path, temp_dirs>>
    /\ UNCHANGED <<pipeVars, stratOwnVars, splitVars, cmdVars>>

\* finally: shutil.rmtree(temp_dir)
InvCleanup(n) ==
    /\ inv_pc[n] = "moved"
    /\ temp_dirs' = temp_dirs \ { inv_temp_dir[n] }
    /\ inv_pc' = [inv_pc EXCEPT ![n] = "done"]
    /\ UNCHANGED <<inv_temp_dir, inv_stem, permanent_path, downloads_dir>>
    /\ UNCHANGED <<pipeVars, stratOwnVars, splitVars, cmdVars>>

InvNext ==
    \E n \in Invocations :
        \/ InvStart(n)
        \/ InvCreateTempDir(n)
        \/ InvChooseName(n)
        \/ InvMove(n)
        \/ InvCleanup(n)

Init ==
    /\ PipeInit
    /\ spc = "idle"
    /\ success_rate_threshold = DefaultThreshold
    /\ StratFresh
    /\ InvIdle
    /\ SplitIdle
    /\ CmdIdle

Next == PipeNext

\* Plugin.execute
Spec == Init /\ [][Next]_vars

StrategyInit ==
    /\ StratStart(Thresholds)
    /\ PipeIdle
    /\ InvIdle
    /\ SplitIdle
    /\ CmdIdle

\* ChunkedStrategy.process for every threshold, a converter run being one step
StrategySpec == StrategyInit /\ [][StrategyNext]_vars

ExecInit ==
    /\ StratStart({ DefaultThreshold })
    /\ PipeIdle
    /\ InvIdle
    /\ SplitIdle
    /\ CmdIdle

\* ChunkedStrategy.process with the processes, the monitor threads and the clock
ExecSpec == ExecInit /\ [][ExecNext]_vars

\* every thread and process is scheduled and the clock advances
FairExecSpec == ExecSpec /\ WF_vars(ExecNext)

InvocationsInit ==
    /\ InvIdle
    /\ PipeIdle
    /\ StratStart({ DefaultThreshold })
    /\ SplitIdle
    /\ CmdIdle

\* several invocations of Plugin.execute finalizing into one downloads directory
InvocationsSpec == InvocationsInit /\ [][InvNext]_vars

SingleInit ==
    /\ SingleStart
    /\ PipeIdle
    /\ InvIdle
    /\ SplitIdle
    /\ CmdIdle

\* SingleFileStrategy.process with the process, its monitor thread and the clock
SingleSpec == SingleInit /\ [][SingleNext]_vars

ChunkingInit ==
    /\ SplitStart
    /\ CmdIdle
    /\ InvIdle
    /\ PipeIdle
    /\ StratStart({ DefaultThreshold })

\* ChunkingService: a document is split, the fragments are converted by the
\* identity, the outputs are merged
ChunkingSpec == ChunkingInit /\ [][ChunkingNext]_vars

CommandInit ==
    /\ CmdStart
    /\ SplitIdle
    /\ InvIdle
    /\ PipeIdle
    /\ StratStart({ DefaultThreshold })

\* the command of one converter launch, for every input name and format
CommandSpec == CommandInit /\ [][CommandNext]_vars

-----------------------------------------------------------------------------
(* Properties of Plugin.execute (Spec)                                     *)

IsHtml == lower(file_ext) = ".html"

\* C1: an input under the chunking threshold, whatever its extension, and a
\* non-.html input of any size, are converted with the Single-File strategy:
\* should_chunk is false and no split, no chunk conversion and no text
\* extraction is performed.
C1_SmallOrNonHtmlIsSingleFile ==
    (SizeLT(file_size, ChunkingThreshold) \/ ~IsHtml) =>
        /\ ~should_chunk_fn(file_size, lower(file_ext), ChunkingThreshold)
        /\ ~should_chunk
        /\ pc \notin { "split", "chunk_loop" }
        /\ split_calls = 0
        /\ chunk_launches = 0
        /\ extract_calls = 0
        /\ outcome.status = "returned" =>
              outcome.strategy = "single_file" /\ single_launches = 1

C1_Witness ==
    /\ pc = "done"
    /\ ~IsHtml
    /\ file_size = Size(80, 0)
    /\ outcome = Returned("single_file")
    /\ single_launches = 1

\* C2 as stated: a .html input whose size is at or above the threshold (a
\* size equal to the threshold included) is never reported as Single-File.
C2_AtOrAboveIsNeverSingleFile ==
    (IsHtml /\ ~SizeLT(file_size, ChunkingThreshold)) =>
        /\ single_launches = 0
        /\ outcome.status = "returned" =>
              outcome.strategy \in { "chunked", "text_extraction" }

\* C2, amended: a .html input whose size is strictly above the threshold is
\* never converted or reported as Single-File, every outcome reported for it
\* is Chunked or Text-Extraction; at a size equal to the threshold
\* should_chunk is false and the strategy is Single-File.
C2_AboveIsNeverSingleFile ==
    /\ (IsHtml /\ SizeGT(file_size, ChunkingThreshold)) =>
          /\ should_chunk_fn(file_size, lower(file_ext), ChunkingThreshold)
          /\ single_launches = 0
          /\ (pc \in { "split", "chunk_loop", "single", "finalize" }
                  \/ outcome.status = "returned") => should_chunk
          /\ outcome.status = "returned" =>
                outcome.strategy \in { "chunked", "text_extraction" }
    /\ (IsHtml /\ file_size = ChunkingThreshold) =>
          /\ ~should_chunk_fn(file_size, lower(file_ext), ChunkingThreshold)
          /\ ~should_chunk
          /\ outcome.status = "returned" => outcome.strategy = "single_file"

C2_Witness ==
    /\ pc = "done"
    /\ file_ext = ".HTML"
    /\ file_size = Size(50, 1)
    /\ outcome = Returned("chunked")
    /\ chunk_launches >= 1

\* C5: when chunking was chosen and the conversion of every fragment failed,
\* the invocation still ends successfully, with strategy Text-Extraction, and
\* not in an error.
C5_AllChunksFailedStillSucceeds ==
    (/\ pc = "done"
     /\ should_chunk
     /\ chunk_paths > 0
     /\ chunk_i = chunk_paths
     /\ processed_chunks = << >>) =>
        /\ outcome.status = "returned"
        /\ outcome.strategy = "text_extraction"

\* an option that holds one of the characters or flags the claim names
Forbidden(o) ==
    \/ \E i \in 1..Len(o) : o[i] \in { ";", BackTick }
    \/ Contains(o, << ".", ".", "/" >>)
    \/ StartsWith(o, << "-", "o" >>)
    \/ StartsWith(o, << "-", "-", "o", "u", "t", "p", "u", "t" >>)

\* C10: advanced options that contain ;, a backtick, ../ or an output-flag
\* override are rejected, and at the moment of the rejection no process of
\* any kind (pre-flight check or converter) has been started.
C10_RejectedBeforeAnyProcess ==
    /\ (pc = "done" /\ \E i \in 1..Len(advanced_options) : Forbidden(advanced_options[i]))
          => outcome.status = "raised"
    /\ outcome.error = "invalid_options" =>
          preflight_spawned + single_launches + chunk_launches = 0

-----------------------------------------------------------------------------
(* Properties of ChunkedStrategy.process (StrategySpec)                    *)

\* the fragments that were converted: the run succeeded and left its output
Succeeded == { k \in 1..chunk_paths : conv_ok[k] }

\* the ratio of converted fragments, as <<numerator, denominator>>
AchievedRatio == << Cardinality(Succeeded), chunk_paths >>

\* the elements of a set of fragment numbers in the order of the input
InOrder(S) ==
    CHOOSE q \in [1..Cardinality(S) -> S] :
        \A i, j \in 1..Cardinality(S) : i < j => q[i] < q[j]

Finished == spc = "s_done" /\ chunk_paths > 0

\* C3: whatever the number of fragments and whichever of them fail, a ratio
\* of converted fragments below the configured minimum makes the strategy
\* return a Text-Extraction result that carries the ratio that was achieved.
\* (Violated: when the extractor raises, the result is a failed Chunked one
\* with the default ratio 1.0.)
C3_BelowMinimumIsTextExtraction ==
    (Finished /\ RatLT(AchievedRatio, success_rate_threshold))
        => /\ result.method = "text_extraction"
           /\ RatEQ(result.success_rate, AchievedRatio)

-----------------------------------------------------------------------------
(* Properties of the converter runs and their monitors (ExecSpec)          *)

\* C6: at most one converter process of the invocation is alive in every
\* reachable state, also after a fragment ended by timeout or memory kill.
C6_AtMostOneConverterAlive ==
    Cardinality({ k \in Frags : child[k] = "running" }) <= 1

\* execute_with_monitoring has sent terminate to fragment k after a timeout
TimedOut(k) ==
    \/ spc = "x_timeout_sleep" /\ k = cur
    \/ end_kind[k] = "timeout"

\* C7: the monitor sends terminate only when it has read the memory above
\* the limit, sends kill only after the whole grace period of 2 seconds and
\* only to a process that is still alive; a process whose memory is above
\* the limit is alive for at most 1 + 2 seconds; monitor_process returns
\* False exactly when it has read the memory above the limit.
C7_TerminateGraceKill ==
    \A k \in Frags :
        /\ ("TERM" \in pending[k] /\ ~TimedOut(k)) => observed[k]
        /\ ("KILL" \in pending[k] /\ end_kind[k] # "timeout")
              => observed[k] /\ grace_waited[k] = 2
        /\ child[k] # "running" => pending[k] = {}
        /\ (child[k] = "running" /\ (over[k] \/ observed[k])) => over_age[k] <= 1 + 2
        /\ mon[k] = "m_done"
              => /\ mon_ret[k] = "False" <=> observed[k]
                 /\ observed[k] => grace_waited[k] = 2

\* the process ignored terminate and the monitor's kill is on its way, 3
\* seconds after the memory crossed the limit
C7_Witness ==
    \E k \in Frags :
        /\ child[k] = "running"
        /\ "KILL" \in pending[k]
        /\ ~TimedOut(k)
        /\ mon_ret[k] = "False"
        /\ over_age[k] = 3

\* C8: a run ended for the memory limit or for the timeout and a run ended
\* by an ordinary error status of the converter never give the same result
\* value of execute_with_monitoring.
C8_ResourceExceededIsDistinguished ==
    \A j, k \in Frags :
        (end_kind[j] \in { "killed", "terminated", "timeout" } /\ end_kind[k] = "nonzero")
            => exec_ret[j] # exec_ret[k]

\* C9 as stated: the monitor makes no memory poll of a process that has
\* exited.
C9_NoPollAfterExit == \A k \in Frags : polls_after_exit[k] = 0

\* C9 amended: the monitor makes at most one memory poll of a process that
\* has exited (the process may exit between the test of the loop and the
\* poll), and every monitor that was started returns.
C9_MonitorStops ==
    /\ [](\A k \in Frags : polls_after_exit[k] <= 1)
    /\ \A k \in Frags : (mon[k] # "m_idle") ~> (mon[k] = "m_done")

\* the process exited between the test of the loop and the poll, the monitor
\* polled it once and is in its last sleep
C9_Witness ==
    \E k \in Frags :
        /\ child[k] = "exited"
        /\ polls_after_exit[k] = 1
        /\ mon[k] = "m_sleep"

-----------------------------------------------------------------------------
(* Properties of Plugin._validate_advanced_options (Spec)                  *)

\* the flags validation names as input/output flags (the pattern --?[io]$
\* and the literals --input and --output)
IOFlags ==
    { << "-", "i" >>, << "-", "o" >>, << "-", "-", "i" >>, << "-", "-", "o" >>,
      << "-", "-", "i", "n", "p", "u", "t" >>, << "-", "-", "o", "u", "t", "p", "u", "t" >> }

\* C11: whatever was submitted, as a list or as a string, with or without
\* whitespace around a token, no option of the list that validation returned
\* begins with -o or --output, is an input/output flag, or holds a shell
\* metacharacter or a path traversal.
C11_ReturnedOptionsAreSafe ==
    \A i \in 1..Len(validated_advanced_options) :
        LET o == validated_advanced_options[i]
        IN  /\ ~StartsWith(o, << "-", "o" >>)
            /\ ~StartsWith(o, << "-", "-", "o", "u", "t", "p", "u", "t" >>)
            /\ o \notin IOFlags
            /\ ~HasShellMeta(o)
            /\ ~HasTraversal(o)

-----------------------------------------------------------------------------
(* Properties of the end of Plugin.execute (Spec)                          *)

\* C12: on a successful invocation the artifact has been moved to the
\* downloads directory before the removal of the temporary directory starts:
\* the removal never runs while the move is under way, and an invocation that
\* returned has its artifact in the downloads directory, where the removal
\* does not touch it.
C12_MoveBeforeCleanup ==
    /\ pc = "removing" => artifact # "moving"
    /\ artifact = "moving" => cleanup_attempts = 0
    /\ outcome.status = "returned" => artifact = "downloads"

\* a successful invocation whose temporary directory has been removed
C12_Witness ==
    /\ pc = "done"
    /\ outcome.status = "returned"
    /\ temp_dir = "removed"
    /\ cleanup_attempts = 1
    /\ artifact = "downloads"

\* C13: every invocation that created a temporary directory calls rmtree on
\* it once before it ends, whether it succeeded or failed, and the finally
\* block never changes what the caller receives, also when rmtree fails.
C13_CleanupAlwaysAttemptedNeverEscalated ==
    /\ []((pc = "done" /\ temp_dir # "none") => cleanup_attempts = 1)
    /\ [][(pc \in { "cleanup", "removing" }) => (outcome' = outcome)]_vars

\* rmtree failed after a successful conversion and the caller still receives
\* the successful outcome
C13_Witness ==
    /\ pc = "done"
    /\ temp_dir = "exists"
    /\ cleanup_attempts = 1
    /\ outcome.status = "returned"


(***************************************************************************)
(* C14: finalizing gives every artifact a name of its own: two invocations *)
(* (also with the same stem and extension) never get the same permanent    *)
(* path, no artifact already in the downloads directory is replaced, and   *)
(* every invocation works in a temporary directory of its own.             *)
(***************************************************************************)
Named(n) == inv_pc[n] \in { "named", "moved", "done" }

C14_FinalizeNamesNeverCollide ==
    /\ \A m, n \in Invocations :
           (m # n /\ Named(m) /\ Named(n))
               => permanent_path[m] # permanent_path[n]
    /\ \A n \in Invocations :
           inv_pc[n] \in { "moved", "done" }
               => << permanent_path[n], n >> \in downloads_dir
    /\ \A m, n \in Invocations :
           (m # n /\ inv_temp_dir[m] # 0 /\ inv_temp_dir[n] # 0
                  /\ inv_pc[m] # "done" /\ inv_pc[n] # "done")
               => inv_temp_dir[m] # inv_temp_dir[n]

(***************************************************************************)
(* C15: no fragment split writes is larger than max_chunk_size, except a   *)
(* fragment that holds one oversized element in which no boundary token is *)
(* left to split at; so an oversized piece that still holds a boundary     *)
(* token has been split again, and the head and the wrapper do not take an *)
(* ordinary fragment over the limit.                                       *)
(***************************************************************************)
HasBoundaryToken(s) ==
    \E k \in 1..Len(split_patterns) : Count(split_patterns[k], s) > 0

C15_FragmentsWithinMaxChunkSize ==
    \A i \in 1..Len(chunks) :
        \/ chunks[i].size <= max_chunk_size
        \/ /\ chunks[i].kind = "text"
           /\ ~HasBoundaryToken(chunks[i].content)

(***************************************************************************)
(* C16: when every fragment is converted by the identity, merging the      *)
(* fragments of a split document gives back each element, text node and    *)
(* boundary token of the body exactly once.                                *)
(***************************************************************************)
MergedContent ==
    Flatten([i \in 1..Len(merged) |->
                IF merged[i].kind = "content" THEN merged[i].text ELSE << >>])

C16_MergeOfSplitKeepsEveryPart ==
    (sp = "done" /\ \A i \in 1..Len(chunk_exists) : chunk_exists[i])
        => \A a \in Atoms :
               Count(a, MergedContent) = Count(a, Flatten(element_strs(body_elements)))

(***************************************************************************)
(* C17: the merged file holds the written fragments in list order with the *)
(* separator of the format between two consecutive ones only: one less     *)
(* separator than written fragments and none at the start, also when the   *)
(* first fragment of the list is missing.                                  *)
(***************************************************************************)
WrittenCount == Cardinality({ i \in 1..Len(chunk_exists) : chunk_exists[i] })

C17_SeparatorsOnlyBetweenWritten ==
    sp = "done"
        => /\ Len(merged) = IF WrittenCount = 0 THEN 0 ELSE 2 * WrittenCount - 1
           /\ \A j \in 1..Len(merged) :
                  IF j % 2 = 1
                  THEN merged[j].kind = "content"
                  ELSE /\ merged[j].kind = "separator"
                       /\ merged[j].text = separator(output_format)
           /\ \A j, k \in 1..Len(merged) :
                  (j < k /\ merged[j].kind = "content" /\ merged[k].kind = "content")
                      => merged[j].index < merged[k].index

(***************************************************************************)
(* C18: the text fallback starts no converter and lets no failure of its   *)
(* own out: whenever extract_from_html was called, the strategy has the    *)
(* path of an output that exists (the extracted text or the placeholder),  *)
(* and the only converter runs are those of the loop over the fragments.   *)
(***************************************************************************)
C18_ExtractionNeverRaises ==
    (Finished /\ extract_calls > 0)
        => /\ result.success
           /\ result.output.kind \in { "extracted", "placeholder" }
           /\ chunk_launches = chunk_paths


(***************************************************************************)
(* C19: the Single-File strategy starts the converter exactly once, waits  *)
(* for it with three times the base timeout, and every failure of the run  *)
(* (status not 0, memory kill, timeout, no output file) ends in a failed   *)
(* Single-File result: nothing is split and no text is extracted.          *)
(***************************************************************************)
C19_SingleFileRunsOnceAndFailureIsTerminal ==
    /\ [](/\ chunk_launches <= 1
          /\ split_calls = 0
          /\ extract_calls = 0
          /\ spc = "f_done"
                => /\ chunk_launches = 1
                   /\ result.method = "single_file"
                   /\ result.success <=> conv_ok[1]
                   /\ end_kind[1] # "ok" => ~result.success)
    /\ [][(spc = "f_start" /\ spc' = "x_wait") => (wait_left' = 3 * TimeoutTicks)]_vars
    /\ [][(spc = "f_done") => (spc' = "f_done" /\ result' = result)]_vars

\* the run was ended for the timeout and the result is a failed Single-File one
C19_Witness ==
    /\ spc = "f_done"
    /\ end_kind[1] = "timeout"
    /\ chunk_launches = 1
    /\ result = SingleResult(FALSE)


(***************************************************************************)
(* C20: staging raises the invalid-input error when the size is 0 or above *)
(* 2 GiB and only then, so an input that reaches the choice of strategy    *)
(* has 0 < size <= 2 GiB: exactly 2 GiB is accepted, a size that is not    *)
(* positive is not.                                                        *)
(***************************************************************************)
C20_StagedSizeIsPositiveAndWithinCeiling ==
    /\ pc = "choose"
          => /\ SizeGT(file_size, Size(0, 0))
             /\ ~SizeGT(file_size, MaxInputSize)
    /\ (outcome.status = "raised" /\ outcome.error \in { "input_empty", "input_too_large" })
          => \/ file_size = Size(0, 0)
             \/ SizeGT(file_size, MaxInputSize)

(***************************************************************************)
(* C21: the check of the converter's data files comes before every         *)
(* conversion: a converter run or a split has been started only after the  *)
(* check found the files; when it did not, the invocation raises at once   *)
(* with no converter run on the input or on a fragment; and the check is   *)
(* made once.                                                              *)
(***************************************************************************)
C21_DataFilesCheckedBeforeAnyConversion ==
    /\ (single_launches + chunk_launches > 0 \/ split_calls > 0 \/ extract_calls > 0)
          => (data_files = "ok" /\ preflight_spawned = 2)
    /\ (preflight_spawned > 0 /\ data_files # "ok")
          => /\ outcome = Raised("data_files_missing")
             /\ pc \in { "cleanup", "removing", "done" }
             /\ single_launches + chunk_launches = 0
    /\ preflight_spawned <= 2

\* the check reported a missing file and the invocation is over without a
\* converter run
C21_Witness ==
    /\ pc = "done"
    /\ data_files = "missing"
    /\ preflight_spawned = 2
    /\ outcome = Raised("data_files_missing")
    /\ single_launches + chunk_launches = 0

(***************************************************************************)
(* C22: every invocation of the strategy ends, with a result that is a     *)
(* success or a failure, and it only moves forward: strategy chosen, then  *)
(* the fragments attempted, then (when it degrades) text extraction, then  *)
(* the end; no step leads to an earlier stage and no converter is started  *)
(* after text extraction.                                                  *)
(***************************************************************************)
Stage ==
    IF spc = "s_done" THEN 4
    ELSE IF extract_calls > 0 THEN 3
    ELSE IF spc = "s_split" THEN 1
    ELSE 2

C22_TerminatesAndOnlyMovesForward ==
    /\ <>(spc = "s_done" /\ result.method \in { "chunked", "text_extraction" })
    /\ [][Stage' >= Stage]_vars
    /\ [][(extract_calls > 0) => (chunk_launches' = chunk_launches /\ split_calls' = split_calls)]_vars
    /\ [][(spc = "s_done") => (spc' = "s_done" /\ result' = result)]_vars

\* a fragment's run was ended by the timeout, the strategy degraded to text
\* extraction and is finished
C22_Witness ==
    /\ spc = "s_done"
    /\ end_kind[1] = "timeout"
    /\ extract_calls = 1
    /\ result.method = "text_extraction"

(***************************************************************************)
(* C23: no converter run is repeated: the converter is started once for    *)
(* each fragment, in the order of the list, so a strategy that has ended   *)
(* has made as many launches as the split returned fragments, whichever    *)
(* runs failed; after failures the strategy only degrades to text          *)
(* extraction.                                                             *)
(***************************************************************************)
InRun == spc \in { "x_wait", "x_timeout_sleep" }

C23_OneLaunchPerFragment ==
    /\ chunk_launches = chunk_i + (IF InRun THEN 1 ELSE 0)
    /\ chunk_launches <= chunk_paths
    /\ spc = "s_done" => chunk_launches = chunk_paths
    /\ (spc = "s_done" /\ chunk_paths > 0 /\ Succeeded = {})
          => (extract_calls = 1 /\ result.method \in { "text_extraction", "chunked" })

\* both fragments failed, one by the timeout, two launches were made and the
\* strategy degraded to text extraction
C23_Witness ==
    /\ spc = "s_done"
    /\ chunk_paths = 2
    /\ chunk_launches = 2
    /\ Succeeded = {}
    /\ end_kind[1] = "timeout"
    /\ end_kind[2] = "nonzero"
    /\ result.method = "text_extraction"

C25_OriginalHeaderInFirstChunkOnly ==
    soup.head
        => \A i \in 1..Len(chunks) :
               chunks[i].header = IF i = 1 THEN "original" ELSE "minimal"

(***************************************************************************)
(* C26: the paths of the fragments one split call returns are pairwise     *)
(* distinct, so no fragment file is written over by a later fragment of    *)
(* the call, also with several oversized elements whose blank pieces are   *)
(* skipped.                                                                *)
(***************************************************************************)
C26_FragmentPathsAreDistinct ==
    \A i, j \in 1..Len(chunks) : i # j => chunks[i].path # chunks[j].path

(***************************************************************************)
(* C27: split returns the fragments in document order: when an element     *)
(* stands before another in the body, its fragment is not later in the     *)
(* returned list than the other's.                                         *)
(***************************************************************************)
C27_FragmentsInDocumentOrder ==
    sp \in { "convert", "merge", "done" }
        => \A i, j \in 1..Len(chunks) :
               \A a \in chunks[i].elems, b \in chunks[j].elems :
                   a < b => i <= j


(***************************************************************************)
(* C28: in every converter command the path given with -o is another path  *)
(* than the input of the command, so the converter never writes over the   *)
(* file it reads: also for a single file whose extension is that of the    *)
(* target format and for a fragment that is the original file.             *)
(***************************************************************************)
C28_OutputPathDiffersFromInputPath ==
    cmd_pc = "built" => command.output # command.input


(***************************************************************************)
(* C29: an invocation adds a file to the downloads directory only if it    *)
(* returns successfully: whenever execute raises, the directory holds the  *)
(* files it held before the invocation, and an invocation that returns has *)
(* added exactly one file.                                                 *)
(***************************************************************************)
C29_FileAddedOnlyOnSuccess ==
    /\ outcome.status = "raised" => downloads_added = 0
    /\ outcome.status = "returned" => downloads_added = 1
    /\ outcome.status = "none" => downloads_added = 0


(***************************************************************************)
(* C30: ChunkedStrategy.process never raises: once the loop over the       *)
(* fragments is over it returns a ProcessingResult, also when the split    *)
(* returned no fragment.  A result with success true has an output path; a *)
(* successful result of method chunked has a success rate that is not      *)
(* below the threshold and a chunk count that is the number of fragments;  *)
(* the success rate of every result lies between 0 and 1.                  *)
(***************************************************************************)
C30_ProcessAlwaysReturnsAConsistentResult ==
    /\ AfterLoop => ENABLED (ZeroFragments \/ Degrade \/ Merge)
    /\ spc = "s_done" =>
          /\ result.method \in { "chunked", "text_extraction" }
          /\ result.success => result.output.kind # "none"
          /\ (result.success /\ result.method = "chunked") =>
                /\ ~RatLT(result.success_rate, success_rate_threshold)
                /\ result.chunk_count = chunk_paths
          /\ result.success_rate[2] > 0
          /\ result.success_rate[1] >= 0
          /\ result.success_rate[1] <= result.success_rate[2]
    /\ (spc = "s_done" /\ chunk_paths = 0) => result = FailedResult

C30_Witness ==
    /\ spc = "s_done"
    /\ result.success
    /\ result.method = "chunked"
    /\ chunk_paths = 2
    /\ Len(processed_chunks) = 1
    /\ result.chunk_count = 2
    /\ result.success_rate = << 1, 2 >>

=============================================================================
